---- MODULE Spec2Model ----
(***************************************************************************)
(* A model of the 6502 interpreter core of src/src/main.rs: the CPU        *)
(* struct, its memory accessors, the addressing-mode resolver, the         *)
(* instruction handlers and the fetch/decode/execute loop of CPU::run.     *)
(*                                                                         *)
(* A Rust panic (an index out of bounds, an arithmetic overflow in a build *)
(* with overflow checks, todo!, panic!) is threaded through the handlers   *)
(* as the field `panic` of the record they transform: "none" while the     *)
(* thread runs, the panic message once it unwinds.                         *)
(***************************************************************************)
EXTENDS Integers, Sequences, FiniteSets, TLC

VARIABLES
    cpu,              \* the CPU struct (plus `panic`, see above)
    at,               \* where the caller is: "idle", "run", "returned", "panicked"
    overflow_checks,  \* the build: TRUE = arithmetic overflow panics (debug, cargo test)
    calls,            \* public calls made so far (bounds the caller)
    call              \* the public call made last: <<function, arguments>>

vars == <<cpu, at, overflow_checks, calls, call>>

----------------------------------------------------------------------------
(* Bounds of the model.                                                     *)

\* how many public calls (load, reset, run, load_and_run, mem_write) a caller makes
MaxCalls == 2

\* how many instructions, before the closing BRK, a generated program holds
MaxInstr == 3

\* how many iterations of the loop of run the operator `run` follows
MaxSteps == 12

----------------------------------------------------------------------------
(* Widths, flags and bit-level helpers.                                     *)

U8 == 256
U16 == 65536

\* memory: [u8; 0xFFFF]
MEMORY_LEN == 65535

CARRY_FLAG == 1
ZERO_FLAG == 2
INTERRUPT_FLAG == 4
DECIMAL_FLAG == 8
BREAK_FLAG == 16
INVALID_FLAG == 32
OVERFOW_FLAG == 64
NEGATIVE_FLAG == 128

Byte == 0 .. 255

RECURSIVE BitAndN(_, _, _)
BitAndN(a, b, n) ==
    IF n = 0 THEN 0
    ELSE (a % 2) * (b % 2) + 2 * BitAndN(a \div 2, b \div 2, n - 1)

RECURSIVE BitXorN(_, _, _)
BitXorN(a, b, n) ==
    IF n = 0 THEN 0
    ELSE ((a + b) % 2) + 2 * BitXorN(a \div 2, b \div 2, n - 1)

\* the operators & | ^ ! on u8 (and & | on u16)
BitAnd(a, b) == BitAndN(a, b, 16)
BitXor(a, b) == BitXorN(a, b, 16)
BitOr(a, b) == a + b - BitAndN(a, b, 16)
BitNot(a) == 255 - a

is_flag_set(flag, x) == BitAnd(x, flag) > 0

\* results of an expression that may panic
Ok(v) == [v |-> v, panic |-> "none"]
Err(why) == [v |-> 0, panic |-> why]

PanicWith(s, why) == IF s.panic = "none" THEN [s EXCEPT !.panic = why] ELSE s

OutOfBounds == "index out of bounds"
AddOverflow == "attempt to add with overflow"
SubOverflow == "attempt to subtract with overflow"
NotImplemented == "not yet implemented"
ModeNotSupported == "mode is not supported"
SliceOutOfRange == "range end index out of range for slice"

\* a + b on a type of `width` values: wraps without overflow checks, panics with them
CheckedAdd(a, b, width) ==
    IF a + b < width THEN Ok(a + b)
    ELSE IF overflow_checks THEN Err(AddOverflow)
    ELSE Ok((a + b) % width)

\* a - b on a type of `width` values
CheckedSub(a, b, width) ==
    IF a >= b THEN Ok(a - b)
    ELSE IF overflow_checks THEN Err(SubOverflow)
    ELSE Ok((a - b) % width)

----------------------------------------------------------------------------
(* Memory: an array of MEMORY_LEN bytes, all zero at construction. It is   *)
(* held as the function of its non-zero cells; a cell outside the domain   *)
(* holds 0. Index MEMORY_LEN and above is outside the array.               *)

Cell(memory, addr) == IF addr \in DOMAIN memory THEN memory[addr] ELSE 0

Store(memory, addr, data) ==
    IF data = 0
    THEN [x \in (DOMAIN memory) \ {addr} |-> memory[x]]
    ELSE [x \in (DOMAIN memory) \cup {addr} |-> IF x = addr THEN data ELSE memory[x]]

ZeroMemory == [x \in {} |-> 0]

mem_read(s, addr) ==
    IF addr < MEMORY_LEN THEN Ok(Cell(s.memory, addr)) ELSE Err(OutOfBounds)

mem_write(s, addr, data) ==
    IF s.panic # "none" THEN s
    ELSE IF addr < MEMORY_LEN
    THEN [s EXCEPT !.memory = Store(s.memory, addr, data)]
    ELSE PanicWith(s, OutOfBounds)

\* an operator's parameter is evaluated once however often it is used: the
\* handlers below bind what they read as the parameter of a local operator
mem_read_u16(s, pos) ==
    LET word(lo, next, hi) ==
            IF lo.panic # "none" THEN lo
            ELSE IF next.panic # "none" THEN next
            ELSE IF hi.panic # "none" THEN hi
            ELSE Ok(hi.v * 256 + lo.v)
    IN  word(mem_read(s, pos), CheckedAdd(pos, 1, U16), mem_read(s, (pos + 1) % U16))

mem_write_u16(s, pos, data) ==
    LET second(s1, next) ==
            IF s1.panic # "none" THEN s1
            ELSE IF next.panic # "none" THEN PanicWith(s1, next.panic)
            ELSE mem_write(s1, next.v, data \div 256)
    IN  second(mem_write(s, pos, data % 256), CheckedAdd(pos, 1, U16))

----------------------------------------------------------------------------
(* Construction, load and reset.                                            *)

new ==
    [register_a |-> 0, register_x |-> 0, register_y |-> 0, status |-> 0,
     program_counter |-> 0, stackpointer |-> 255, memory |-> ZeroMemory,
     panic |-> "none"]

\* self.memory[base .. base + program.len()].copy_from_slice(&program[..])
copy_from_slice(memory, base, program) ==
    LET dst == base .. (base + Len(program) - 1)
        nonzero == {x \in dst : program[x - base + 1] # 0}
    IN  [x \in ((DOMAIN memory) \ dst) \cup nonzero |->
            IF x \in nonzero THEN program[x - base + 1] ELSE memory[x]]

\* load, were it to copy the image one cell higher
load_one_up(s, program) ==
    IF 32769 + Len(program) > MEMORY_LEN THEN PanicWith(s, SliceOutOfRange)
    ELSE mem_write_u16([s EXCEPT !.memory = copy_from_slice(s.memory, 32769, program)],
                       65532, 32768)

load(s, program) ==
    IF 32768 + Len(program) > MEMORY_LEN THEN PanicWith(s, SliceOutOfRange)
    ELSE mem_write_u16([s EXCEPT !.memory = copy_from_slice(s.memory, 32768, program)],
                       65532, 32768)

\* reset, were it to leave the status as it is
reset_keeps_status(s) ==
    LET set_pc(s1, v) ==
            IF v.panic # "none" THEN PanicWith(s1, v.panic)
            ELSE [s1 EXCEPT !.program_counter = v.v]
    IN  set_pc([s EXCEPT !.register_a = 0, !.register_x = 0, !.register_y = 0,
                         !.stackpointer = 255],
               mem_read_u16(s, 65532))

\* reset, were it to leave the index registers and the stack pointer alone
reset_accumulator_only(s) ==
    LET set_pc(s1, v) ==
            IF v.panic # "none" THEN PanicWith(s1, v.panic)
            ELSE [s1 EXCEPT !.program_counter = v.v]
    IN  set_pc([s EXCEPT !.register_a = 0, !.status = 0], mem_read_u16(s, 65532))

reset(s) ==
    LET set_pc(s1, v) ==
            IF v.panic # "none" THEN PanicWith(s1, v.panic)
            ELSE [s1 EXCEPT !.program_counter = v.v]
    IN  set_pc([s EXCEPT !.register_a = 0, !.register_x = 0, !.register_y = 0,
                         !.stackpointer = 255, !.status = 0],
               mem_read_u16(s, 65532))

----------------------------------------------------------------------------
(* The addressing-mode resolver.                                            *)

\* the operand byte of a branch taken as unsigned
SignExtend_unsigned(b) == b

\* (addr as i8) as i32
SignExtend(b) == IF b >= 128 THEN b - 256 ELSE b

\* v, when the earlier result r did not panic; r's panic otherwise
Then(r, v) == IF r.panic # "none" THEN r ELSE v

\* pos.wrapping_add(index) on a type of `width` values
\* wrapping_add, were the sum computed in a wider type and not reduced
wrapping_add_wide(pos, index, width) == Then(pos, Ok(pos.v + index))

wrapping_add(pos, index, width) == Then(pos, Ok((pos.v + index) % width))

get_operand_address(s, mode) ==
    CASE mode = "Accumulator" -> Ok(s.register_a)
      [] mode = "Immediate" -> Ok(s.program_counter)
      [] mode = "Zeropage" -> mem_read(s, s.program_counter)
      [] mode = "Absolute" -> mem_read_u16(s, s.program_counter)
      [] mode = "Zeropage_Y" ->
            wrapping_add(mem_read(s, s.program_counter), s.register_y, U8)
      [] mode = "Zeropage_X" ->
            wrapping_add(mem_read(s, s.program_counter), s.register_x, U8)
      [] mode = "Absolute_X" ->
            wrapping_add(mem_read_u16(s, s.program_counter), s.register_x, U16)
      [] mode = "Absolute_Y" ->
            wrapping_add(mem_read_u16(s, s.program_counter), s.register_y, U16)
      [] mode = "Indirect" ->
            LET value(addr) == Then(addr, mem_read_u16(s, addr.v))
            IN  value(mem_read_u16(s, s.program_counter))
      [] mode = "Indirect_X" ->
            LET word(pos, lo, hi) == Then(pos, Then(lo, Then(hi, Ok(hi.v * 256 + lo.v))))
                at_base(pos, base) ==
                    word(pos, mem_read(s, base), mem_read(s, (base + 1) % U8))
                from(pos) == at_base(pos, (pos.v + s.register_x) % U8)
            IN  from(mem_read(s, s.program_counter))
      [] mode = "Indirect_Y" ->
            LET word(pos, lo, hi) ==
                    Then(pos, Then(lo, Then(hi,
                        Ok((hi.v * 256 + lo.v + s.register_y) % U16))))
                from(pos) == word(pos, mem_read(s, pos.v), mem_read(s, (pos.v + 1) % U8))
            IN  from(mem_read(s, s.program_counter))
      [] mode = "Relative" ->
            LET target(addr) ==
                    Then(addr, Ok((SignExtend(addr.v) + s.program_counter) % U16))
            IN  target(mem_read(s, s.program_counter))
      [] OTHER -> Err(ModeNotSupported)

\* let addr = self.get_operand_address(mode); let value = self.mem_read(addr);
\* the result carries both: [v |-> value, addr |-> addr, panic |-> ...]
read_operand(s, mode) ==
    LET both(addr, value) ==
            IF addr.panic # "none" THEN [v |-> 0, addr |-> 0, panic |-> addr.panic]
            ELSE [v |-> value.v, addr |-> addr.v, panic |-> value.panic]
        read(addr) == both(addr, mem_read(s, addr.v))
    IN  read(get_operand_address(s, mode))

----------------------------------------------------------------------------
(* Flag helpers.                                                            *)

SetFlag(status, flag) == BitOr(status, flag)
ClearFlag(status, flag) == BitAnd(status, 255 - flag)
PutFlag(status, flag, on) == IF on THEN SetFlag(status, flag) ELSE ClearFlag(status, flag)

\* update_zero_and_negative_flags, were it to take N from bit 6
update_flags_of_bit6(s, result) ==
    [s EXCEPT !.status =
        PutFlag(PutFlag(s.status, ZERO_FLAG, result = 0),
                NEGATIVE_FLAG, BitAnd(result, 64) # 0)]

update_zero_and_negative_flags(s, result) ==
    [s EXCEPT !.status =
        PutFlag(PutFlag(s.status, ZERO_FLAG, result = 0),
                NEGATIVE_FLAG, BitAnd(result, 128) # 0)]

sec(s) == [s EXCEPT !.status = BitOr(s.status, 1)]
clc(s) == [s EXCEPT !.status = BitAnd(s.status, 254)]

----------------------------------------------------------------------------
(* Loads and stores.                                                        *)

lda(s, mode) ==
    LET with(m) ==
            IF m.panic # "none" THEN PanicWith(s, m.panic)
            ELSE update_zero_and_negative_flags([s EXCEPT !.register_a = m.v], m.v)
    IN  with(read_operand(s, mode))

ldx(s, mode) ==
    LET with(m) ==
            IF m.panic # "none" THEN PanicWith(s, m.panic)
            ELSE update_zero_and_negative_flags([s EXCEPT !.register_x = m.v], m.v)
    IN  with(read_operand(s, mode))

ldy(s, mode) ==
    LET with(m) ==
            IF m.panic # "none" THEN PanicWith(s, m.panic)
            ELSE update_zero_and_negative_flags([s EXCEPT !.register_y = m.v], m.v)
    IN  with(read_operand(s, mode))

\* self.mem_write(addr, data) with addr = self.get_operand_address(mode)
write_operand(s, addr, data) ==
    IF addr.panic # "none" THEN PanicWith(s, addr.panic)
    ELSE mem_write(s, addr.v, data)

sta(s, mode) == write_operand(s, get_operand_address(s, mode), s.register_a)
stx(s, mode) == write_operand(s, get_operand_address(s, mode), s.register_x)
sty(s, mode) == write_operand(s, get_operand_address(s, mode), s.register_y)

----------------------------------------------------------------------------
(* Arithmetic.                                                              *)

\* overflowing_add, were it wrapping_add: the carry out is lost
overflowing_add_wrapping(a, b) == [v |-> (a + b) % U8, carry |-> FALSE]

\* u8::overflowing_add and overflowing_sub: (value, overflowed)
overflowing_add(a, b) == [v |-> (a + b) % U8, carry |-> a + b >= U8]
overflowing_sub(a, b) == [v |-> (a - b) % U8, carry |-> a < b]

\* adc, were it to honour D: the sum is adjusted to decimal when D is set
adc_decimal(s, mode) ==
    LET finish(s3, tmp, pos) ==
            [s3 EXCEPT !.status =
                IF BitAnd(BitAnd(BitXor(s3.register_a, tmp),
                                 BitXor(s3.register_a, pos)), 128) # 0
                THEN BitOr(s3.status, 64) ELSE BitAnd(s3.status, 191)]
        carry(s2, touple, touple2) ==
            [s2 EXCEPT !.status = IF touple.carry \/ touple2.carry
                                  THEN BitOr(s2.status, 1) ELSE BitAnd(s2.status, 254)]
        adjusted(v) ==
            IF BitAnd(s.status, DECIMAL_FLAG) # 0 /\ v % 16 > 9 THEN (v + 6) % U8 ELSE v
        sum(pos, touple, touple2) ==
            finish(carry(update_zero_and_negative_flags(
                             [s EXCEPT !.register_a = adjusted(touple2.v),
                                       !.status = IF BitAnd(s.status, 1) = 1
                                                  THEN BitAnd(s.status, 254)
                                                  ELSE s.status],
                             adjusted(touple2.v)),
                         touple, touple2),
                   s.register_a, pos)
        add(pos, touple) == sum(pos, touple, overflowing_add(s.register_a, touple.v))
        with(m) ==
            IF m.panic # "none" THEN PanicWith(s, m.panic)
            ELSE add(m.v, overflowing_add(m.v, BitAnd(s.status, 1)))
    IN  with(read_operand(s, mode))

\* adc, were it to take V from the accumulator's change of sign alone
adc_sign_change(s, mode) ==
    LET finish(s3, tmp, pos) ==
            [s3 EXCEPT !.status =
                IF BitAnd(BitXor(s3.register_a, tmp), 128) # 0
                THEN BitOr(s3.status, 64) ELSE BitAnd(s3.status, 191)]
        carry(s2, touple, touple2) ==
            [s2 EXCEPT !.status = IF touple.carry \/ touple2.carry
                                  THEN BitOr(s2.status, 1) ELSE BitAnd(s2.status, 254)]
        sum(pos, touple, touple2) ==
            finish(carry(update_zero_and_negative_flags(
                             [s EXCEPT !.register_a = touple2.v,
                                       !.status = IF BitAnd(s.status, 1) = 1
                                                  THEN BitAnd(s.status, 254)
                                                  ELSE s.status],
                             touple2.v),
                         touple, touple2),
                   s.register_a, pos)
        add(pos, touple) == sum(pos, touple, overflowing_add(s.register_a, touple.v))
        with(m) ==
            IF m.panic # "none" THEN PanicWith(s, m.panic)
            ELSE add(m.v, overflowing_add(m.v, BitAnd(s.status, 1)))
    IN  with(read_operand(s, mode))

adc(s, mode) ==
    LET finish(s3, tmp, pos) ==
            [s3 EXCEPT !.status =
                IF BitAnd(BitAnd(BitXor(s3.register_a, tmp),
                                 BitXor(s3.register_a, pos)), 128) # 0
                THEN BitOr(s3.status, 64) ELSE BitAnd(s3.status, 191)]
        carry(s2, touple, touple2) ==
            [s2 EXCEPT !.status = IF touple.carry \/ touple2.carry
                                  THEN BitOr(s2.status, 1) ELSE BitAnd(s2.status, 254)]
        sum(pos, touple, touple2) ==
            finish(carry(update_zero_and_negative_flags(
                             [s EXCEPT !.register_a = touple2.v,
                                       !.status = IF BitAnd(s.status, 1) = 1
                                                  THEN BitAnd(s.status, 254)
                                                  ELSE s.status],
                             touple2.v),
                         touple, touple2),
                   s.register_a, pos)
        add(pos, touple) == sum(pos, touple, overflowing_add(s.register_a, touple.v))
        with(m) ==
            IF m.panic # "none" THEN PanicWith(s, m.panic)
            ELSE add(m.v, overflowing_add(m.v, BitAnd(s.status, 1)))
    IN  with(read_operand(s, mode))

\* sbc, were it to add the operand as adc does, uncomplemented
sbc_adds(s, mode) == adc(s, mode)

sbc(s, mode) ==
    LET finish(s3, tmp, pos) ==
            [s3 EXCEPT !.status =
                IF BitAnd(BitAnd(BitXor(s3.register_a, tmp),
                                 BitXor(s3.register_a, BitNot(pos))), 128) # 0
                THEN BitOr(s3.status, 64) ELSE BitAnd(s3.status, 191)]
        carry(s2) ==
            [s2 EXCEPT !.status = IF ~(BitAnd(s2.status, 128) = 128)
                                  THEN BitOr(s2.status, 1) ELSE BitAnd(s2.status, 254)]
        sum(pos, touple2) ==
            finish(carry(update_zero_and_negative_flags(
                             [s EXCEPT !.register_a = touple2.v,
                                       !.status = IF BitAnd(s.status, 1) = 1
                                                  THEN BitAnd(s.status, 254)
                                                  ELSE s.status],
                             touple2.v)),
                   s.register_a, pos)
        add(pos, touple) == sum(pos, overflowing_add(s.register_a, touple.v))
        with(m) ==
            IF m.panic # "none" THEN PanicWith(s, m.panic)
            ELSE add(m.v, overflowing_add(BitNot(m.v), BitAnd(s.status, 1)))
    IN  with(read_operand(s, mode))

\* write new_value back to the operand's address, then N and Z from it
write_back(s, m, new_value) ==
    IF m.panic # "none" THEN PanicWith(s, m.panic)
    ELSE update_zero_and_negative_flags(mem_write(s, m.addr, new_value), new_value)

inc(s, mode) ==
    LET with(m) == write_back(s, m, overflowing_add(m.v, 1).v)
    IN  with(read_operand(s, mode))

dec(s, mode) ==
    LET with(m) == write_back(s, m, overflowing_sub(m.v, 1).v)
    IN  with(read_operand(s, mode))

inx(s) ==
    LET set(v) == update_zero_and_negative_flags([s EXCEPT !.register_x = v], v)
    IN  set(overflowing_add(s.register_x, 1).v)

dex(s) ==
    LET set(v) == update_zero_and_negative_flags([s EXCEPT !.register_x = v], v)
    IN  set(overflowing_sub(s.register_x, 1).v)

iny(s) ==
    LET set(v) == update_zero_and_negative_flags([s EXCEPT !.register_y = v], v)
    IN  set(overflowing_add(s.register_y, 1).v)

dey(s) ==
    LET set(v) == update_zero_and_negative_flags([s EXCEPT !.register_y = v], v)
    IN  set(overflowing_sub(s.register_y, 1).v)

tax(s) == update_zero_and_negative_flags([s EXCEPT !.register_x = s.register_a], s.register_a)
txa(s) == update_zero_and_negative_flags([s EXCEPT !.register_a = s.register_x], s.register_x)
tay(s) == update_zero_and_negative_flags([s EXCEPT !.register_y = s.register_a], s.register_a)
tya(s) == update_zero_and_negative_flags([s EXCEPT !.register_a = s.register_y], s.register_y)

----------------------------------------------------------------------------
(* Shifts and rotates: on register_a in Accumulator mode, on memory         *)
(* otherwise.                                                               *)

\* the carry flag replaced by `carry` (0 or 1), then N and Z from `value`
shift_flags(s, carry, value) ==
    update_zero_and_negative_flags(
        [s EXCEPT !.status = BitOr(BitAnd(s.status, 254), carry)], value)

\* the value `old` of the operand replaced by new_value, in register_a or in memory
shift_result(s, mode, m, carry, new_value) ==
    IF mode = "Accumulator"
    THEN shift_flags([s EXCEPT !.register_a = new_value], carry, new_value)
    ELSE IF m.panic # "none" THEN PanicWith(s, m.panic)
    ELSE shift_flags(mem_write(s, m.addr, new_value), carry, new_value)

\* the operand of a shift: register_a in Accumulator mode, the memory operand otherwise
shift_operand(s, mode) ==
    IF mode = "Accumulator" THEN [v |-> s.register_a, addr |-> 0, panic |-> "none"]
    ELSE read_operand(s, mode)

asl(s, mode) ==
    LET with(m) == shift_result(s, mode, m, m.v \div 128, (m.v * 2) % U8)
    IN  with(shift_operand(s, mode))

lsr(s, mode) ==
    LET with(m) == shift_result(s, mode, m, m.v % 2, m.v \div 2)
    IN  with(shift_operand(s, mode))
\* rol without the carry-in: a shift
rol_as_shift(s, mode) == asl(s, mode)

rol(s, mode) ==
    LET with(m) ==
            shift_result(s, mode, m, m.v \div 128,
                         BitOr(BitAnd((m.v * 2) % U8, 254), BitAnd(s.status, 1)))
    IN  with(shift_operand(s, mode))

\* ror keeping bit 7 of the operand: an arithmetic shift
ror_keeps_sign(s, mode) ==
    LET with(m) ==
            shift_result(s, mode, m, m.v % 2,
                         BitOr(m.v \div 2, BitAnd(m.v, 128)))
    IN  with(shift_operand(s, mode))

ror(s, mode) ==
    LET with(m) ==
            shift_result(s, mode, m, m.v % 2,
                         BitOr(m.v \div 2, BitAnd(s.status, 1) * 128))
    IN  with(shift_operand(s, mode))

----------------------------------------------------------------------------
(* Logical operations, BIT and the compares.                                *)

\* register_a = v, then N and Z from it
set_a(s, m, v) ==
    IF m.panic # "none" THEN PanicWith(s, m.panic)
    ELSE update_zero_and_negative_flags([s EXCEPT !.register_a = v], v)

and(s, mode) ==
    LET with(m) == set_a(s, m, BitAnd(s.register_a, m.v))
    IN  with(read_operand(s, mode))

ora(s, mode) ==
    LET with(m) == set_a(s, m, BitOr(s.register_a, m.v))
    IN  with(read_operand(s, mode))

eor(s, mode) ==
    LET with(m) == set_a(s, m, BitXor(s.register_a, m.v))
    IN  with(read_operand(s, mode))

\* bit, were it to take V from bit 7 of the operand, as N
bit_overflow_of_bit7(s, mode) ==
    LET bit7(p2, bit7_tmp) ==
            IF bit7_tmp = 128 THEN BitOr(p2, bit7_tmp) ELSE BitAnd(p2, 127)
        bit6(p1, bit6_tmp) ==
            IF bit6_tmp = 128 THEN BitOr(p1, 64) ELSE BitAnd(p1, 191)
        zero(result) ==
            IF result = 0 THEN BitOr(s.status, 2) ELSE BitAnd(s.status, 253)
        with(m) ==
            IF m.panic # "none" THEN PanicWith(s, m.panic)
            ELSE [s EXCEPT !.status =
                    bit7(bit6(zero(BitAnd(s.register_a, m.v)), BitAnd(m.v, 128)),
                         BitAnd(m.v, 128))]
    IN  with(read_operand(s, mode))

\* bit, were it to take Z from the operand alone
bit_zero_of_operand(s, mode) ==
    LET bit7(p2, bit7_tmp) ==
            IF bit7_tmp = 128 THEN BitOr(p2, bit7_tmp) ELSE BitAnd(p2, 127)
        bit6(p1, bit6_tmp) ==
            IF bit6_tmp = 64 THEN BitOr(p1, bit6_tmp) ELSE BitAnd(p1, 191)
        zero(result) ==
            IF result = 0 THEN BitOr(s.status, 2) ELSE BitAnd(s.status, 253)
        with(m) ==
            IF m.panic # "none" THEN PanicWith(s, m.panic)
            ELSE [s EXCEPT !.status =
                    bit7(bit6(zero(m.v), BitAnd(m.v, 64)), BitAnd(m.v, 128))]
    IN  with(read_operand(s, mode))

bit(s, mode) ==
    LET bit7(p2, bit7_tmp) ==
            IF bit7_tmp = 128 THEN BitOr(p2, bit7_tmp) ELSE BitAnd(p2, 127)
        bit6(p1, bit6_tmp) ==
            IF bit6_tmp = 64 THEN BitOr(p1, bit6_tmp) ELSE BitAnd(p1, 191)
        zero(result) ==
            IF result = 0 THEN BitOr(s.status, 2) ELSE BitAnd(s.status, 253)
        with(m) ==
            IF m.panic # "none" THEN PanicWith(s, m.panic)
            ELSE [s EXCEPT !.status =
                    bit7(bit6(zero(BitAnd(s.register_a, m.v)), BitAnd(m.v, 64)),
                         BitAnd(m.v, 128))]
    IN  with(read_operand(s, mode))

\* the body shared by cmp, cpx and cpy: `reg - value` is a plain u8 subtraction
compare(s, reg, mode) ==
    LET negative(p2, v) ==
            IF BitAnd(v, 128) = 128 THEN BitOr(p2, 128) ELSE BitAnd(p2, 127)
        carry(p1, v) ==
            IF ~(BitAnd(v, 128) = 128) THEN BitOr(p1, 1) ELSE BitAnd(p1, 254)
        zero(v) == IF v = 0 THEN BitOr(s.status, 2) ELSE BitAnd(s.status, 253)
        flags(m, result) ==
            IF m.panic # "none" THEN PanicWith(s, m.panic)
            ELSE IF result.panic # "none" THEN PanicWith(s, result.panic)
            ELSE [s EXCEPT !.status =
                    negative(carry(zero(result.v), result.v), result.v)]
        with(m) == flags(m, CheckedSub(reg, m.v, U8))
    IN  with(read_operand(s, mode))

cmp(s, mode) == compare(s, s.register_a, mode)
cpx(s, mode) == compare(s, s.register_x, mode)
cpy(s, mode) == compare(s, s.register_y, mode)

----------------------------------------------------------------------------
(* Branches.                                                                *)

\* self.program_counter = addr, when `taken`
branch_to(s, addr, taken) ==
    IF addr.panic # "none" THEN PanicWith(s, addr.panic)
    ELSE IF taken THEN [s EXCEPT !.program_counter = addr.v]
    ELSE s

branch(s, mode) ==
    IF mode = "Relative" THEN branch_to(s, get_operand_address(s, mode), TRUE) ELSE s

bcc(s, mode) == IF is_flag_set(CARRY_FLAG, s.status) = FALSE THEN branch(s, mode) ELSE s
\* bcs and beq resolve the operand before they test the flag
bcs(s, mode) ==
    branch_to(s, get_operand_address(s, mode), is_flag_set(CARRY_FLAG, s.status) = TRUE)
beq(s, mode) ==
    branch_to(s, get_operand_address(s, mode), is_flag_set(ZERO_FLAG, s.status) = TRUE)
bne(s, mode) == IF is_flag_set(ZERO_FLAG, s.status) = FALSE THEN branch(s, mode) ELSE s
bpl(s, mode) == IF is_flag_set(NEGATIVE_FLAG, s.status) = FALSE THEN branch(s, mode) ELSE s
bmi(s, mode) == IF is_flag_set(NEGATIVE_FLAG, s.status) = TRUE THEN branch(s, mode) ELSE s
bvc(s, mode) == IF is_flag_set(OVERFOW_FLAG, s.status) = FALSE THEN branch(s, mode) ELSE s
\* bvs testing the flag of bmi
bvs_on_negative(s, mode) ==
    IF is_flag_set(NEGATIVE_FLAG, s.status) = TRUE THEN branch(s, mode) ELSE s

bvs(s, mode) == IF is_flag_set(OVERFOW_FLAG, s.status) = TRUE THEN branch(s, mode) ELSE s

----------------------------------------------------------------------------
(* The stack, jumps and subroutines.                                        *)

\* self.stackpointer = sp, after a write that left the cpu s1
set_sp(s1, sp) ==
    IF s1.panic # "none" THEN s1
    ELSE IF sp.panic # "none" THEN PanicWith(s1, sp.panic)
    ELSE [s1 EXCEPT !.stackpointer = sp.v]

push(s, data) ==
    LET low(s1, below) ==
            IF s1.panic # "none" THEN s1
            ELSE IF below.panic # "none" THEN PanicWith(s1, below.panic)
            ELSE set_sp(mem_write(s1, 256 + below.v, data % 256),
                        CheckedSub(s.stackpointer, 2, U8))
    IN  low(mem_write(s, 256 + s.stackpointer, data \div 256),
            CheckedSub(s.stackpointer, 1, U8))

push_pc(s) ==
    LET with(pc) == IF pc.panic # "none" THEN PanicWith(s, pc.panic) ELSE push(s, pc.v)
    IN  with(CheckedAdd(s.program_counter, 2, U16))

\* the popped word is (hi << 8) | (lo + 1): + binds tighter than |
\* the result is [s |-> the cpu after the pops, v |-> the word]
pop_pc(s) ==
    LET word(s1, hi, below, lo) ==
            IF hi.panic # "none" THEN [s |-> PanicWith(s1, hi.panic), v |-> 0]
            ELSE IF below.panic # "none" THEN [s |-> PanicWith(s1, below.panic), v |-> 0]
            ELSE IF lo.panic # "none" THEN [s |-> PanicWith(s1, lo.panic), v |-> 0]
            ELSE [s |-> s1, v |-> BitOr(hi.v * 256, lo.v + 1)]
        low(s1, hi, below) == word(s1, hi, below, mem_read(s1, 256 + below.v))
        with(sp) ==
            IF sp.panic # "none" THEN [s |-> PanicWith(s, sp.panic), v |-> 0]
            ELSE low([s EXCEPT !.stackpointer = sp.v], mem_read(s, 256 + sp.v),
                     CheckedSub(sp.v, 1, U8))
    IN  with(CheckedAdd(s.stackpointer, 2, U8))

\* self.stackpointer += 1, then the byte at 0x0100 + stackpointer
\* the result is [s |-> the cpu after the pop, v |-> the byte]
pop_byte(s) ==
    LET read(s1, value) ==
            IF value.panic # "none" THEN [s |-> PanicWith(s1, value.panic), v |-> 0]
            ELSE [s |-> s1, v |-> value.v]
        with(sp) ==
            IF sp.panic # "none" THEN [s |-> PanicWith(s, sp.panic), v |-> 0]
            ELSE read([s EXCEPT !.stackpointer = sp.v], mem_read(s, 256 + sp.v))
    IN  with(CheckedAdd(s.stackpointer, 1, U8))

pop_flag(s) == pop_byte(s)

\* self.program_counter = value
set_pc(s, value) ==
    IF s.panic # "none" THEN s
    ELSE IF value.panic # "none" THEN PanicWith(s, value.panic)
    ELSE [s EXCEPT !.program_counter = value.v]

jmp(s, mode) ==
    CASE mode = "Absolute" -> set_pc(s, mem_read_u16(s, s.program_counter))
      [] mode = "Indirect" -> set_pc(s, get_operand_address(s, "Indirect"))
      [] OTHER -> PanicWith(s, ModeNotSupported)

jsr(s, mode) ==
    LET goto(value) ==
            IF value.panic # "none" THEN PanicWith(s, value.panic)
            ELSE set_pc(push_pc(s), value)
    IN  CASE mode = "Absolute" -> goto(mem_read_u16(s, s.program_counter))
          [] OTHER -> PanicWith(s, ModeNotSupported)

rts(s) ==
    LET with(p) == set_pc(p.s, CheckedAdd(p.v, 1, U16))
    IN  with(pop_pc(s))

rti(s) ==
    LET return(p) == set_pc(p.s, Ok(p.v))
        with(f) ==
            IF f.s.panic # "none" THEN f.s
            ELSE return(pop_pc([f.s EXCEPT !.status =
                    BitOr(BitAnd(f.v, BitNot(BREAK_FLAG)), INVALID_FLAG)]))
    IN  with(pop_flag(s))

brk(s) ==
    LET with(v) ==
            IF v.panic # "none" THEN PanicWith(s, v.panic)
            ELSE [s EXCEPT !.program_counter = v.v,
                           !.status = BitOr(s.status, BREAK_FLAG)]
    IN  with(mem_read_u16(s, 65534))

\* pha, were it to push with the two-byte push
pha_two_bytes(s) == push(s, s.register_a)

\* pha moving the stack pointer before it writes
pha_writes_below(s) ==
    LET below(sp) ==
            IF sp.panic # "none" THEN PanicWith(s, sp.panic)
            ELSE [mem_write(s, 256 + sp.v, s.register_a) EXCEPT !.stackpointer = sp.v]
    IN  below(CheckedSub(s.stackpointer, 1, U8))

pha(s) ==
    set_sp(mem_write(s, 256 + s.stackpointer, s.register_a),
           CheckedSub(s.stackpointer, 1, U8))

\* pla reading the top cell before it moves the stack pointer
pla_reads_below(s) ==
    LET with(p) ==
            IF p.s.panic # "none" THEN p.s
            ELSE update_zero_and_negative_flags(
                     [p.s EXCEPT !.register_a = Cell(s.memory, 256 + s.stackpointer)],
                     Cell(s.memory, 256 + s.stackpointer))
    IN  with(pop_byte(s))

pla(s) ==
    LET with(p) ==
            IF p.s.panic # "none" THEN p.s
            ELSE update_zero_and_negative_flags([p.s EXCEPT !.register_a = p.v], p.v)
    IN  with(pop_byte(s))

\* php pushing the status as it is
php_pushes_status(s) ==
    set_sp(mem_write(s, 256 + s.stackpointer, s.status),
           CheckedSub(s.stackpointer, 1, U8))

php(s) ==
    set_sp(mem_write(s, 256 + s.stackpointer,
                     BitOr(BitOr(s.status, BREAK_FLAG), INVALID_FLAG)),
           CheckedSub(s.stackpointer, 1, U8))

\* plp keeping the B flag the status had
plp_keeps_break(s) ==
    LET with(p) ==
            IF p.s.panic # "none" THEN p.s
            ELSE [p.s EXCEPT !.status =
                     BitOr(BitAnd(p.v, 255 - BREAK_FLAG), BitAnd(s.status, BREAK_FLAG))]
    IN  with(pop_byte(s))

plp(s) ==
    LET with(p) ==
            IF p.s.panic # "none" THEN p.s ELSE [p.s EXCEPT !.status = p.v]
    IN  with(pop_byte(s))

txs(s) == [s EXCEPT !.stackpointer = s.register_x]
tsx(s) == update_zero_and_negative_flags([s EXCEPT !.register_x = s.stackpointer],
                                         s.stackpointer)

cli(s) == [s EXCEPT !.status = BitAnd(s.status, BitNot(INTERRUPT_FLAG))]
sei(s) == [s EXCEPT !.status = BitOr(s.status, INTERRUPT_FLAG)]
cld(s) == [s EXCEPT !.status = BitAnd(s.status, BitNot(DECIMAL_FLAG))]
sed(s) == [s EXCEPT !.status = BitOr(s.status, DECIMAL_FLAG)]
\* clv clearing the flag next to V in the source
clv_clears_negative(s) == [s EXCEPT !.status = BitAnd(s.status, BitNot(NEGATIVE_FLAG))]

clv(s) == [s EXCEPT !.status = BitAnd(s.status, BitNot(OVERFOW_FLAG))]

----------------------------------------------------------------------------
(* The fetch/decode/execute loop.                                           *)

\* the arms of `match code` in run: <<code, handler, mode, program_counter += n>>
Arms ==
    << <<56, "sec", "NoneAddressinng", 0>>, <<24, "clc", "NoneAddressinng", 0>>,
       <<169, "lda", "Immediate", 1>>, <<165, "lda", "Zeropage", 1>>,
       <<181, "lda", "Zeropage_X", 1>>, <<173, "lda", "Absolute", 2>>,
       <<189, "lda", "Absolute_X", 2>>, <<185, "lda", "Absolute_Y", 2>>,
       <<161, "lda", "Indirect_X", 1>>, <<177, "lda", "Indirect_Y", 1>>,
       <<162, "ldx", "Immediate", 1>>, <<166, "ldx", "Zeropage", 1>>,
       <<182, "ldx", "Zeropage_Y", 1>>, <<174, "ldx", "Absolute", 2>>,
       <<190, "ldx", "Absolute_Y", 2>>, <<160, "ldy", "Immediate", 1>>,
       <<164, "ldy", "Zeropage", 1>>, <<180, "ldy", "Zeropage_X", 1>>,
       <<172, "ldy", "Absolute", 2>>, <<188, "ldy", "Absolute_X", 2>>,
       <<133, "sta", "Zeropage", 1>>, <<149, "sta", "Zeropage_X", 1>>,
       <<141, "sta", "Absolute", 2>>, <<157, "sta", "Absolute_X", 2>>,
       <<153, "sta", "Absolute_Y", 2>>, <<129, "sta", "Indirect_X", 1>>,
       <<145, "sta", "Indirect_Y", 1>>, <<134, "stx", "Zeropage", 1>>,
       <<150, "stx", "Zeropage_Y", 1>>, <<142, "stx", "Absolute", 2>>,
       <<132, "sty", "Zeropage", 1>>, <<148, "sty", "Zeropage_Y", 1>>,
       <<140, "sty", "Absolute", 2>>, <<105, "adc", "Immediate", 1>>,
       <<101, "adc", "Zeropage", 1>>, <<117, "adc", "Zeropage_X", 1>>,
       <<109, "adc", "Absolute", 2>>, <<125, "adc", "Absolute_X", 2>>,
       <<121, "adc", "Absolute_Y", 2>>, <<97, "adc", "Indirect_X", 1>>,
       <<113, "adc", "Indirect_Y", 1>>, <<233, "sbc", "Immediate", 1>>,
       <<229, "sbc", "Zeropage", 1>>, <<245, "sbc", "Zeropage_X", 1>>,
       <<237, "sbc", "Absolute", 2>>, <<253, "sbc", "Absolute_X", 2>>,
       <<249, "sbc", "Absolute_Y", 2>>, <<225, "sbc", "Indirect_X", 1>>,
       <<241, "sbc", "Indirect_Y", 1>>, <<230, "inc", "Zeropage", 1>>,
       <<246, "inc", "Zeropage_X", 1>>, <<238, "inc", "Absolute", 2>>,
       <<254, "inc", "Absolute_X", 2>>, <<198, "dec", "Zeropage", 1>>,
       <<214, "dec", "Zeropage_X", 1>>, <<206, "dec", "Absolute", 2>>,
       <<222, "dec", "Absolute_X", 2>>, <<170, "tax", "NoneAddressinng", 0>>,
       <<138, "txa", "NoneAddressinng", 0>>, <<168, "tay", "NoneAddressinng", 0>>,
       <<152, "tya", "NoneAddressinng", 0>>, <<232, "inx", "NoneAddressinng", 0>>,
       <<202, "dex", "NoneAddressinng", 0>>, <<200, "iny", "NoneAddressinng", 0>>,
       <<136, "dey", "NoneAddressinng", 0>>, <<10, "asl", "Accumulator", 0>>,
       <<6, "asl", "Zeropage", 1>>, <<22, "asl", "Zeropage_X", 1>>,
       <<14, "asl", "Absolute", 2>>, <<30, "asl", "Absolute_X", 2>>,
       <<74, "lsr", "Accumulator", 0>>, <<70, "lsr", "Zeropage", 1>>,
       <<86, "lsr", "Zeropage_X", 1>>, <<78, "lsr", "Absolute", 2>>,
       <<94, "lsr", "Absolute_X", 2>>, <<42, "rol", "Accumulator", 0>>,
       <<38, "rol", "Zeropage", 1>>, <<54, "rol", "Zeropage_X", 1>>,
       <<46, "rol", "Absolute", 2>>, <<62, "rol", "Absolute_X", 2>>,
       <<106, "ror", "Accumulator", 0>>, <<102, "ror", "Zeropage", 1>>,
       <<118, "ror", "Zeropage_X", 1>>, <<110, "ror", "Absolute", 2>>,
       <<126, "ror", "Absolute_X", 2>>, <<41, "and", "Immediate", 1>>,
       <<37, "and", "Zeropage", 1>>, <<53, "and", "Zeropage_X", 1>>,
       <<45, "and", "Absolute", 2>>, <<61, "and", "Absolute_X", 2>>,
       <<57, "and", "Absolute_Y", 2>>, <<33, "and", "Indirect_X", 1>>,
       <<49, "and", "Indirect_Y", 1>>, <<9, "ora", "Immediate", 1>>,
       <<5, "ora", "Zeropage", 1>>, <<21, "ora", "Zeropage_X", 1>>,
       <<13, "ora", "Absolute", 2>>, <<29, "ora", "Absolute_X", 2>>,
       <<25, "ora", "Absolute_Y", 2>>, <<1, "ora", "Indirect_X", 1>>,
       <<17, "ora", "Indirect_Y", 1>>, <<73, "eor", "Immediate", 1>>,
       <<69, "eor", "Zeropage", 1>>, <<85, "eor", "Zeropage_X", 1>>,
       <<77, "eor", "Absolute", 2>>, <<93, "eor", "Absolute_X", 2>>,
       <<89, "eor", "Absolute_Y", 2>>, <<65, "eor", "Indirect_X", 1>>,
       <<81, "eor", "Indirect_Y", 1>>, <<36, "bit", "Zeropage", 1>>,
       <<44, "bit", "Absolute", 2>>, <<201, "cmp", "Immediate", 1>>,
       <<197, "cmp", "Zeropage", 1>>, <<213, "cmp", "Zeropage_X", 1>>,
       <<205, "cmp", "Absolute", 2>>, <<221, "cmp", "Absolute_X", 2>>,
       <<217, "cmp", "Absolute_Y", 2>>, <<193, "cmp", "Indirect_X", 1>>,
       <<209, "cmp", "Indirect_Y", 1>>, <<224, "cpx", "Immediate", 1>>,
       <<228, "cpx", "Zeropage", 1>>, <<236, "cpx", "Absolute", 2>>,
       <<192, "cpy", "Immediate", 1>>, <<196, "cpy", "Zeropage", 1>>,
       <<204, "cpy", "Absolute", 2>>, <<144, "bcc", "Relative", 1>>,
       <<176, "bcs", "Relative", 1>>, <<240, "beq", "Relative", 1>>,
       <<208, "bne", "Relative", 1>>, <<16, "bpl", "Relative", 1>>,
       <<48, "bmi", "Relative", 1>>, <<80, "bvc", "Relative", 1>>,
       <<112, "bvs", "Relative", 1>>, <<76, "jmp", "Absolute", 0>>,
       <<108, "jmp", "Absolute", 0>>, <<0, "return", "NoneAddressinng", 0>>,
       <<72, "pha", "NoneAddressinng", 0>>, <<104, "pla", "NoneAddressinng", 0>>,
       <<8, "php", "NoneAddressinng", 0>>, <<40, "plp", "NoneAddressinng", 0>>,
       <<154, "txs", "NoneAddressinng", 0>>, <<186, "tsx", "NoneAddressinng", 0>>,
       <<88, "cli", "NoneAddressinng", 0>>, <<120, "sei", "NoneAddressinng", 0>>,
       <<216, "cld", "NoneAddressinng", 0>>, <<248, "sed", "NoneAddressinng", 0>>,
       <<184, "clv", "NoneAddressinng", 0>> >>

ArmOf(code) ==
    IF \E i \in 1 .. Len(Arms) : Arms[i][1] = code
    THEN Arms[CHOOSE i \in 1 .. Len(Arms) : Arms[i][1] = code]
    ELSE <<code, "todo", "NoneAddressinng", 0>>

\* the match, as a table over the byte fetched
DecodeTable == [code \in Byte |-> ArmOf(code)]

\* the arm `0x00 => { return; }`
\* Returns, were the loop to leave run() on a byte it has no arm for as well
Returns_on_todo(code) == DecodeTable[code][2] \in {"return", "todo"}

Returns(code) == DecodeTable[code][2] = "return"

Exec(op, s, mode) ==
    CASE op = "sec" -> sec(s) [] op = "clc" -> clc(s)
      [] op = "lda" -> lda(s, mode) [] op = "ldx" -> ldx(s, mode)
      [] op = "ldy" -> ldy(s, mode) [] op = "sta" -> sta(s, mode)
      [] op = "stx" -> stx(s, mode) [] op = "sty" -> sty(s, mode)
      [] op = "adc" -> adc(s, mode) [] op = "sbc" -> sbc(s, mode)
      [] op = "inc" -> inc(s, mode) [] op = "dec" -> dec(s, mode)
      [] op = "inx" -> inx(s) [] op = "dex" -> dex(s)
      [] op = "iny" -> iny(s) [] op = "dey" -> dey(s)
      [] op = "tax" -> tax(s) [] op = "txa" -> txa(s)
      [] op = "tay" -> tay(s) [] op = "tya" -> tya(s)
      [] op = "asl" -> asl(s, mode) [] op = "lsr" -> lsr(s, mode)
      [] op = "rol" -> rol(s, mode) [] op = "ror" -> ror(s, mode)
      [] op = "and" -> and(s, mode) [] op = "ora" -> ora(s, mode)
      [] op = "eor" -> eor(s, mode) [] op = "bit" -> bit(s, mode)
      [] op = "cmp" -> cmp(s, mode) [] op = "cpx" -> cpx(s, mode)
      [] op = "cpy" -> cpy(s, mode)
      [] op = "bcc" -> bcc(s, mode) [] op = "bcs" -> bcs(s, mode)
      [] op = "beq" -> beq(s, mode) [] op = "bne" -> bne(s, mode)
      [] op = "bpl" -> bpl(s, mode) [] op = "bmi" -> bmi(s, mode)
      [] op = "bvc" -> bvc(s, mode) [] op = "bvs" -> bvs(s, mode)
      [] op = "jmp" -> jmp(s, mode)
      [] op = "pha" -> pha(s) [] op = "pla" -> pla(s)
      [] op = "php" -> php(s) [] op = "plp" -> plp(s)
      [] op = "txs" -> txs(s) [] op = "tsx" -> tsx(s)
      [] op = "cli" -> cli(s) [] op = "sei" -> sei(s)
      [] op = "cld" -> cld(s) [] op = "sed" -> sed(s)
      [] op = "clv" -> clv(s)
      [] OTHER -> PanicWith(s, NotImplemented)

\* advance, were every operand taken to be one byte long
advance_one_byte(s, n) ==
    LET pc == CheckedAdd(s.program_counter, IF n > 1 THEN 1 ELSE n, U16)
    IN  IF s.panic # "none" THEN s
        ELSE IF pc.panic # "none" THEN PanicWith(s, pc.panic)
        ELSE [s EXCEPT !.program_counter = pc.v]

\* advance, were the program counter left where it is
advance_nowhere(s, n) == s

\* self.program_counter += n
advance(s, n) ==
    LET pc == CheckedAdd(s.program_counter, n, U16)
    IN  IF s.panic # "none" THEN s
        ELSE IF pc.panic # "none" THEN PanicWith(s, pc.panic)
        ELSE [s EXCEPT !.program_counter = pc.v]

\* return_arm, were the arm to push the status before it returns
return_arm_pushing(s1) == [s |-> php(s1), returned |-> TRUE]

\* the body of the arm `0x00 => { return; }`
return_arm(s1) == [s |-> s1, returned |-> TRUE]

\* one iteration of the loop of run: [s |-> the cpu after it, returned |-> run returned]
run_iteration(s) ==
    LET dispatch(s1, arm) ==
            [s |-> advance(Exec(arm[2], s1, arm[3]), arm[4]), returned |-> FALSE]
        fetched(code, s1) ==
            IF code.panic # "none" THEN [s |-> PanicWith(s, code.panic), returned |-> FALSE]
            ELSE IF s1.panic # "none" THEN [s |-> s1, returned |-> FALSE]
            ELSE IF Returns(code.v) THEN return_arm(s1)
            ELSE dispatch(s1, DecodeTable[code.v])
    IN  fetched(mem_read(s, s.program_counter), advance(s, 1))

\* run(), followed for at most `fuel` iterations: the cpu when it returned or
\* panicked (or ran out of fuel)
RECURSIVE run(_, _)
run(s, fuel) ==
    LET after(r) ==
            IF r.s.panic # "none" \/ r.returned \/ fuel = 0 THEN r.s
            ELSE run(r.s, fuel - 1)
    IN  after(run_iteration(s))

load_and_run(s, image) == run(reset(load(s, image)), MaxSteps)

----------------------------------------------------------------------------
(* The caller: a test or an embedder that makes up to MaxCalls public       *)
(* calls, one after the other.                                              *)

\* the program of each test of mod test that this model runs
TestPrograms ==
    { <<169, 5, 0>>,                                   \* test_0xa9_lda_immediate_load_data
      <<169, 255, 170, 232, 232, 0>>,                  \* inx_overflow_check
      <<56, 169, 80, 105, 80, 0>>,                     \* test_0x69_adc_immediate_overflow_ver3
      <<56, 169, 80, 233, 16, 0>>,                     \* test_0xe9_adc_immediate_notoverflow
      <<169, 80, 72, 169, 5, 72, 0>>,                  \* test_0x48_pha
      <<169, 80, 72, 169, 5, 72, 104, 104, 0>>,        \* test_0x68_pla
      <<56, 8, 0>>,                                    \* test_0x08_php
      <<56, 8, 24, 40, 0>>,                            \* test_0x28_plp
      <<162, 80, 154, 0>>,                             \* test_0x9a_txs
      <<169, 0, 141, 255, 127, 169, 232, 141, 254, 127, 76, 254, 127, 0>> }  \* test_0x8e_stx_absolute

\* the cells and bytes a caller patches with the test hook mem_write
PokeAddrs == {0, 65532, 65533, 65535}
PokeData == {18, 64}

Outcome(s) == IF s.panic # "none" THEN "panicked" ELSE "idle"

Callable == at \in {"idle", "returned"} /\ calls < MaxCalls

Load(image) ==
    /\ Callable
    /\ cpu' = load(cpu, image)
    /\ at' = Outcome(cpu')
    /\ calls' = calls + 1
    /\ call' = <<"load", image>>
    /\ UNCHANGED overflow_checks

Reset ==
    /\ Callable
    /\ cpu' = reset(cpu)
    /\ at' = Outcome(cpu')
    /\ calls' = calls + 1
    /\ call' = <<"reset">>
    /\ UNCHANGED overflow_checks

\* run(), up to its loop; Step is the loop
Run ==
    /\ Callable
    /\ at' = "run"
    /\ calls' = calls + 1
    /\ call' = <<"run">>
    /\ UNCHANGED <<cpu, overflow_checks>>

\* load_and_run(image), up to the loop of run; Step is the loop
LoadAndRun(image) ==
    /\ Callable
    /\ cpu' = reset(load(cpu, image))
    /\ at' = IF cpu'.panic # "none" THEN "panicked" ELSE "run"
    /\ calls' = calls + 1
    /\ call' = <<"load_and_run", image>>
    /\ UNCHANGED overflow_checks

MemWrite(addr, data) ==
    /\ Callable
    /\ cpu' = mem_write(cpu, addr, data)
    /\ at' = Outcome(cpu')
    /\ calls' = calls + 1
    /\ call' = <<"mem_write", addr, data>>
    /\ UNCHANGED overflow_checks

MemRead(addr) ==
    /\ Callable
    /\ cpu' = PanicWith(cpu, mem_read(cpu, addr).panic)
    /\ at' = Outcome(cpu')
    /\ calls' = calls + 1
    /\ call' = <<"mem_read", addr>>
    /\ UNCHANGED overflow_checks

Step ==
    /\ at = "run"
    /\ LET to(r) ==
               /\ cpu' = r.s
               /\ at' = IF r.s.panic # "none" THEN "panicked"
                        ELSE IF r.returned THEN "returned" ELSE "run"
       IN  to(run_iteration(cpu))
    /\ UNCHANGED <<overflow_checks, calls, call>>

----------------------------------------------------------------------------
(* Spec: a caller that constructs a CPU and calls its public functions with *)
(* the programs of the tests.                                               *)

\* the programs of the scenarios of the specification's section 8 that no
\* test runs as they are: scenario 6, LDA #0x80; BIT 0x0000; BRK
ScenarioPrograms == { <<169, 128, 44, 0, 0>> }

Init ==
    /\ cpu = new
    /\ at = "idle"
    /\ overflow_checks \in BOOLEAN
    /\ calls = 0
    /\ call = <<"new">>

Next ==
    \/ \E image \in TestPrograms : Load(image)
    \/ \E image \in TestPrograms \cup ScenarioPrograms : LoadAndRun(image)
    \/ Reset
    \/ Run
    \/ \E addr \in PokeAddrs, data \in PokeData : MemWrite(addr, data)
    \/ \E addr \in PokeAddrs : MemRead(addr)
    \/ Step

Spec == Init /\ [][Next]_vars

----------------------------------------------------------------------------
(* SpecLoad: a caller loads one image, of a size at the limits of load,     *)
(* into a CPU that has run a test or had its memory patched, then resets.   *)

\* an image of n bytes: `first` at its start, `last` at its end, zero between them
Image(n, first, last) ==
    [i \in 1 .. n |-> IF i = 1 THEN first ELSE IF i = n THEN last ELSE 0]

\* the space load has before the reset vector, and before the end of memory
VectorRoom == 65532 - 32768
ArrayRoom == MEMORY_LEN - 32768

Images ==
    { Image(n, 169, 234) : n \in {3, VectorRoom - 1, VectorRoom, VectorRoom + 1,
                                  ArrayRoom, ArrayRoom + 1} }
        \cup { <<>>, <<7>>, <<0, 0, 9>> }

\* a CPU that has been used: by a test, by mem_write
UsedCpus ==
    { load_and_run(new, image) : image \in TestPrograms }
        \cup { mem_write(mem_write(new, 32769, d), a, d) : a \in {65531, 65533, 65534},
                                                       d \in PokeData }

InitLoad ==
    /\ cpu \in UsedCpus
    /\ cpu.panic = "none"
    /\ at = "idle"
    /\ overflow_checks \in BOOLEAN
    /\ calls = 0
    /\ call = <<"new">>

NextLoad ==
    \/ \E image \in Images : calls = 0 /\ Load(image)
    \/ Reset

SpecLoad == InitLoad /\ [][NextLoad]_vars

----------------------------------------------------------------------------
(* SpecRun: load_and_run, from a new CPU, of every program that starts with *)
(* each of the 256 opcode bytes (the bytes after it are its operand, or the *)
(* next opcodes), and of every program of up to MaxInstr loads and pushes. *)

OperandBytes == {0, 2, 254}

OpcodePrograms ==
    { <<code, b1, b2>> : code \in Byte, b1 \in OperandBytes \cup {16}, b2 \in OperandBytes }

\* LDA #0x50, LDA #0x05, LDA #0x00, LDA #0x80, SEC, PHA, PHP
PushMenu == { <<169, 80>>, <<169, 5>>, <<169, 0>>, <<169, 128>>, <<56>>, <<72>>, <<8>> }

RECURSIVE PushBodies(_)
\* the programs of exactly n instructions of PushMenu, without the closing BRK
PushBodies(n) ==
    IF n = 0 THEN { <<>> }
    ELSE { body \o instr : body \in PushBodies(n - 1), instr \in PushMenu }

PushPrograms == UNION { { body \o <<0>> : body \in PushBodies(n) } : n \in 0 .. MaxInstr }

\* and JMP $8000, loaded at 0x8000: a jump to its own address
RunPrograms == OpcodePrograms \cup PushPrograms \cup TestPrograms \cup { <<76, 0, 128>> }

InitRun ==
    /\ \E image \in RunPrograms :
            /\ call = <<"load_and_run", image>>
            /\ cpu = reset(load(new, image))
    /\ at = "run"
    /\ overflow_checks \in BOOLEAN
    /\ calls = 1

NextRun == Step

SpecRun == InitRun /\ [][NextRun]_vars

----------------------------------------------------------------------------
(* SpecALU: run() on a CPU on which the caller called load with one         *)
(* instruction, then reset, then set the public fields register_a and       *)
(* status.  Accumulator, status and operand are drawn from the bytes at     *)
(* and next to every multiple of 16.                                        *)

AluBytes == {x \in Byte : x % 16 \in {0, 1, 15}}
AluStatus == {0, 1, 194, 203}
\* ADC #, SBC #
AluOpcodes == {105, 233}

InitALU ==
    /\ \E code \in AluOpcodes, m \in AluBytes, a \in AluBytes, p \in AluStatus :
            cpu = [reset(load(new, <<code, m, 0>>)) EXCEPT !.register_a = a, !.status = p]
    /\ at = "run"
    /\ overflow_checks \in BOOLEAN
    /\ calls = 1
    /\ call = <<"run">>

NextALU == Step

SpecALU == InitALU /\ [][NextALU]_vars

----------------------------------------------------------------------------
(* Properties of run(), checked under SpecRun.                              *)

\* the byte run() fetches next: [v |-> the byte, panic |-> "none"], or the panic
Fetched == mem_read(cpu, cpu.program_counter)

\* C1: run() returns exactly when the byte it fetches at PC is 0x00: an
\* iteration of the loop that fetches 0x00 returns, and an iteration that
\* fetches any other byte does not return (it goes on, or it panics).
C1_RunReturnsExactlyOnBrk ==
    [][at = "run" => ((at' = "returned") <=> (Fetched = Ok(0)))]_vars

\* run() has returned after it executed at least one instruction
C1_Witness ==
    /\ at = "returned"
    /\ cpu.program_counter > 32769
    /\ cpu.register_a = 5

\* C2, as the specification states it: the iteration that ends run() at a
\* BRK leaves SP 3 lower, I set, and PC holding the word at 0xFFFE.
C2_BrkPushesAndTakesVector ==
    [][(at = "run" /\ at' = "returned") =>
          /\ cpu'.stackpointer = (cpu.stackpointer - 3) % U8
          /\ is_flag_set(INTERRUPT_FLAG, cpu'.status)
          /\ cpu'.program_counter =
                 Cell(cpu.memory, 65534) + 256 * Cell(cpu.memory, 65535)]_vars

\* C2, as the code has it: the iteration that ends run() at a BRK only
\* steps PC over the BRK byte; SP, P, A, X, Y and memory are as before it.
C2_BrkOnlyStepsOverItself ==
    [][(at = "run" /\ at' = "returned") =>
          cpu' = [cpu EXCEPT !.program_counter = cpu.program_counter + 1]]_vars

\* run() has returned with I clear and nothing on the stack, from a program
\* that set the carry: test_0x69_adc_immediate_overflow_ver3
C2_Witness ==
    /\ at = "returned"
    /\ call[2] = <<56, 169, 80, 105, 80, 0>>
    /\ cpu.stackpointer = 255
    /\ ~is_flag_set(INTERRUPT_FLAG, cpu.status)
    /\ cpu.program_counter = 32768 + 6

RECURSIVE PushOnly(_, _)
\* prog, from its byte i, is LDA #v, SEC, PHA and PHP instructions, then BRK
PushOnly(prog, i) ==
    IF i > Len(prog) THEN FALSE
    ELSE IF prog[i] = 0 THEN TRUE
    ELSE IF prog[i] = 169 THEN i + 1 <= Len(prog) /\ PushOnly(prog, i + 2)
    ELSE prog[i] \in {56, 72, 8} /\ PushOnly(prog, i + 1)

RECURSIVE Pushed(_, _, _, _, _)
\* the bytes a 6502 pushes, in order, running such a program from byte i
\* with accumulator a, carry c (0 or 1) and N and Z as in zn
Pushed(prog, i, a, c, zn) ==
    IF prog[i] = 0 THEN <<>>
    ELSE IF prog[i] = 169
         THEN Pushed(prog, i + 2, prog[i + 1], c,
                     (IF prog[i + 1] = 0 THEN 2 ELSE 0)
                         + (IF prog[i + 1] >= 128 THEN 128 ELSE 0))
    ELSE IF prog[i] = 56 THEN Pushed(prog, i + 1, a, 1, zn)
    ELSE IF prog[i] = 72 THEN <<a>> \o Pushed(prog, i + 1, a, c, zn)
    ELSE <<c + zn + 48>> \o Pushed(prog, i + 1, a, c, zn)

\* C3: when run() returns from a program of n single-byte pushes (PHA, PHP,
\* with LDA # and SEC between them) ended by BRK, SP is 0xFF - n, the n
\* pushed bytes are at 0x01FF downward in the order pushed, and the rest of
\* the stack page is untouched: the closing BRK pushed nothing.
C3_PushesThenBrk ==
    (at = "returned" /\ call[1] = "load_and_run" /\ PushOnly(call[2], 1)) =>
        LET holds(pushed) ==
                /\ cpu.stackpointer = 255 - Len(pushed)
                /\ \A k \in 1 .. Len(pushed) :
                       Cell(cpu.memory, 511 - (k - 1)) = pushed[k]
                /\ \A x \in 256 .. (511 - Len(pushed)) : Cell(cpu.memory, x) = 0
        IN  holds(Pushed(call[2], 1, 0, 0, 0))

\* test_0x48_pha has returned: 0x50 at 0x01FF, 0x05 at 0x01FE, SP = 0xFD
C3_Witness ==
    /\ at = "returned"
    /\ call[2] = <<169, 80, 72, 169, 5, 72, 0>>
    /\ cpu.stackpointer = 253
    /\ Cell(cpu.memory, 511) = 80
    /\ Cell(cpu.memory, 510) = 5

----------------------------------------------------------------------------
(* Properties of the caller's functions, checked under Spec and SpecLoad.   *)

\* the step is a public call of the function fn
Calls(fn) == calls' = calls + 1 /\ call'[1] = fn

\* C4: reset(), from whatever state the CPU is in, sets A, X and Y to 0, SP
\* to 0xFF and P to 0, loads PC with the little-endian word at 0xFFFC and
\* 0xFFFD, and leaves memory as it is.
C4_Reset ==
    [][Calls("reset") =>
          /\ cpu'.panic = "none"
          /\ cpu'.register_a = 0 /\ cpu'.register_x = 0 /\ cpu'.register_y = 0
          /\ cpu'.stackpointer = 255
          /\ cpu'.status = 0
          /\ cpu'.program_counter =
                 Cell(cpu.memory, 65532) + 256 * Cell(cpu.memory, 65533)
          /\ cpu'.memory = cpu.memory]_vars

\* reset() was called on a CPU that ran test_0x48_pha: the registers are
\* cleared, the stack the test left is still in memory
C4_Witness ==
    /\ call = <<"reset">>
    /\ at = "idle"
    /\ cpu.register_a = 0 /\ cpu.stackpointer = 255 /\ cpu.status = 0
    /\ cpu.program_counter = 32768
    /\ Cell(cpu.memory, 511) = 80

\* C5: load(image), for an image of n <= 0x7FFC bytes, makes memory hold
\* image[i] at 0x8000 + i, 0x00 at 0xFFFC and 0x80 at 0xFFFD (so that a
\* reset() then yields PC = 0x8000), and changes no other cell and no
\* register.
C5_Load ==
    [][(Calls("load") /\ Len(call'[2]) <= 32764) =>
          LET n == Len(call'[2])
              written == (32768 .. (32768 + n - 1)) \cup {65532, 65533}
          IN  /\ cpu'.panic = "none"
              /\ \A i \in 1 .. n : Cell(cpu'.memory, 32768 + i - 1) = call'[2][i]
              /\ Cell(cpu'.memory, 65532) = 0
              /\ Cell(cpu'.memory, 65533) = 128
              /\ \A x \in ((DOMAIN cpu.memory) \cup (DOMAIN cpu'.memory)) \ written :
                     Cell(cpu'.memory, x) = Cell(cpu.memory, x)
              /\ cpu' = [cpu EXCEPT !.memory = cpu'.memory]
              /\ reset(cpu').program_counter = 32768]_vars

\* load() was called with an image of exactly 0x7FFC bytes, on a CPU whose
\* cell above the reset vector a caller had patched
C5_Witness ==
    /\ call[1] = "load"
    /\ Len(call[2]) = 32764
    /\ at = "idle"
    /\ Cell(cpu.memory, 32768 + 32763) = 234
    /\ Cell(cpu.memory, 65534) = 18
    /\ Cell(cpu.memory, 65532) = 0 /\ Cell(cpu.memory, 65533) = 128

\* C6, as the specification states it: mem_write and mem_read of any address
\* of 0x0000 .. 0xFFFF do not fault, and the value written is the value read.
C6_EveryAddressIsACell ==
    [][/\ Calls("mem_write") =>
              (cpu'.panic = "none" /\ mem_read(cpu', call'[2]) = Ok(call'[3]))
       /\ Calls("mem_read") => cpu'.panic = "none"]_vars

\* C7, as the specification states it: the 16-bit read at 0xFFFF does not
\* fault and returns mem[0xFFFF] as its low byte and mem[0x0000] as its high
\* byte.
C7_Read16WrapsAtTop ==
    at # "panicked" =>
        LET wraps(r) ==
                /\ r.panic = "none"
                /\ r.v = Cell(cpu.memory, 65535) + 256 * Cell(cpu.memory, 0)
        IN  wraps(mem_read_u16(cpu, 65535))

----------------------------------------------------------------------------
(* Properties of the arithmetic handlers, checked under SpecALU.            *)

\* run() is about to execute the instruction `code #immediate`
Executes(code) == at = "run" /\ Fetched = Ok(code)

\* the immediate operand of the instruction at PC
Immediate == Cell(cpu.memory, cpu.program_counter + 1)

\* the carry flag of the CPU, as 0 or 1
CarryIn == cpu.status % 2

\* C8: ADC leaves (A + M + C) mod 256 in A, sets C exactly when A + M + C
\* exceeds 255, and sets Z and N from the new A.
C8_AdcSumAndCarry ==
    [][Executes(105) =>
          LET sum == cpu.register_a + Immediate + CarryIn
          IN  /\ cpu'.panic = "none"
              /\ cpu'.register_a = sum % 256
              /\ is_flag_set(CARRY_FLAG, cpu'.status) <=> sum > 255
              /\ is_flag_set(ZERO_FLAG, cpu'.status) <=> sum % 256 = 0
              /\ is_flag_set(NEGATIVE_FLAG, cpu'.status) <=> sum % 256 >= 128]_vars

\* ADC #0xD0 has run with A = 0x50 and C set: A = 0x21, C set, Z and N clear
C8_Witness ==
    /\ Cell(cpu.memory, 32768) = 105 /\ Cell(cpu.memory, 32769) = 208
    /\ cpu.program_counter = 32770
    /\ cpu.register_a = 33
    /\ is_flag_set(CARRY_FLAG, cpu.status)
    /\ ~is_flag_set(ZERO_FLAG, cpu.status)
    /\ ~is_flag_set(NEGATIVE_FLAG, cpu.status)

\* C9: ADC sets V exactly when ((A ^ R) & (M ^ R) & 0x80) is not 0, R being
\* the new A, and that is exactly when the sum of A and M as signed bytes,
\* plus C, is outside -128 .. 127.
C9_AdcOverflow ==
    [][Executes(105) =>
          LET signed == SignExtend(cpu.register_a) + SignExtend(Immediate) + CarryIn
              bits(R) == BitAnd(BitAnd(BitXor(cpu.register_a, R),
                                       BitXor(Immediate, R)), 128)
          IN  /\ is_flag_set(OVERFOW_FLAG, cpu'.status) <=> bits(cpu'.register_a) # 0
              /\ is_flag_set(OVERFOW_FLAG, cpu'.status) <=> signed \notin -128 .. 127]_vars

\* ADC #0x50 has run with A = 0x50 and C clear: A = 0xA0 and V is set
C9_Witness ==
    /\ Cell(cpu.memory, 32768) = 105 /\ Cell(cpu.memory, 32769) = 80
    /\ cpu.program_counter = 32770
    /\ cpu.register_a = 160
    /\ is_flag_set(OVERFOW_FLAG, cpu.status)

\* C10: SBC leaves (A + (~M & 0xFF) + C) mod 256 in A.
C10_SbcDifference ==
    [][Executes(233) =>
          /\ cpu'.panic = "none"
          /\ cpu'.register_a =
                 (cpu.register_a + (255 - Immediate) + CarryIn) % 256]_vars

\* SBC #0x10 has run with A = 0x50 and C set: A = 0x40
C10_Witness ==
    /\ Cell(cpu.memory, 32768) = 233 /\ Cell(cpu.memory, 32769) = 16
    /\ cpu.program_counter = 32770
    /\ cpu.register_a = 64

\* the CPU an ADC of the immediate operand m leaves, executed where the
\* instruction at PC is, on the CPU as it is now
AdcOf(m) ==
    adc([cpu EXCEPT !.program_counter = cpu.program_counter + 1,
                    !.memory = Store(cpu.memory, cpu.program_counter + 1, m)],
        "Immediate")

\* C, Z, V and N
ArithmeticFlags == CARRY_FLAG + ZERO_FLAG + OVERFOW_FLAG + NEGATIVE_FLAG

\* C11, as the specification states it: SBC of M leaves the A and the C, V,
\* N and Z that ADC of ~M leaves from the same A and carry-in, and C is set
\* exactly when A + (~M & 0xFF) + C exceeds 255 (no borrow).
C11_SbcIsAdcOfComplement ==
    [][Executes(233) =>
          LET same(r) ==
                  /\ cpu'.register_a = r.register_a
                  /\ BitAnd(cpu'.status, ArithmeticFlags)
                         = BitAnd(r.status, ArithmeticFlags)
          IN  /\ same(AdcOf(255 - Immediate))
              /\ is_flag_set(CARRY_FLAG, cpu'.status)
                     <=> cpu.register_a + (255 - Immediate) + CarryIn > 255]_vars

----------------------------------------------------------------------------
(* SpecCompare, SpecMove: run() on a CPU on which the caller called load    *)
(* with one instruction, then reset, filled the data cells the instruction  *)
(* can address with mem_write, and set the public register fields.          *)

\* the two bytes after the opcode
InstrOperands == { <<0, 0>>, <<16, 2>>, <<64, 0>>, <<255, 0>> }
InstrRegs == {0, 64, 255}
InstrData == {0, 64, 128, 129, 192}
InstrStatus == {0, 207}

\* the zero-page cells and the absolute cells the operands reach, indexed or not
DataCells ==
    { (o[1] + r + d) % 256 : o \in InstrOperands, r \in InstrRegs, d \in {0, 1} }
        \cup { o[1] + 256 * o[2] + r : o \in InstrOperands, r \in InstrRegs }

\* memory after mem_write(x, v) for every data cell x
Filled(memory, v) ==
    IF v = 0 THEN memory
    ELSE [x \in (DOMAIN memory) \cup DataCells |->
            IF x \in DataCells THEN v ELSE memory[x]]

\* BIT, CMP, CPX, CPY in all their addressing modes
CompareOpcodes ==
    {36, 44} \cup {201, 197, 213, 205, 221, 217, 193, 209}
        \cup {224, 228, 236} \cup {192, 196, 204}

\* LDA, LDX, LDY, STA, STX, STY in all their addressing modes, and the transfers
MoveOpcodes ==
    {169, 165, 181, 173, 189, 185, 161, 177} \cup {162, 166, 182, 174, 190}
        \cup {160, 164, 180, 172, 188}
        \cup {133, 149, 141, 157, 153, 129, 145} \cup {134, 150, 142}
        \cup {132, 148, 140}
        \cup {170, 138, 168, 152, 186, 154}

InitInstr(opcodes, stackpointers) ==
    /\ \E code \in opcodes, o \in InstrOperands, v \in InstrData,
          a \in InstrRegs, x \in InstrRegs, y \in InstrRegs,
          sp \in stackpointers, p \in InstrStatus :
            cpu = [reset(load(new, <<code, o[1], o[2], 0>>)) EXCEPT
                      !.memory = Filled(@, v),
                      !.register_a = a, !.register_x = x, !.register_y = y,
                      !.stackpointer = sp, !.status = p]
    /\ at = "run"
    /\ overflow_checks \in BOOLEAN
    /\ calls = 1
    /\ call = <<"run">>

InitCompare == InitInstr(CompareOpcodes, {255})

NextCompare == Step

SpecCompare == InitCompare /\ [][NextCompare]_vars

InitMove == InitInstr(MoveOpcodes, {0, 255})

NextMove == Step

SpecMove == InitMove /\ [][NextMove]_vars

----------------------------------------------------------------------------
(* The 6502 the specification describes: the legal opcode map and the       *)
(* addressing modes of its section 4.2.  The properties below compare the   *)
(* code with it.                                                            *)

\* the 151 legal opcodes: <<opcode, mnemonic, addressing mode>>
Legal ==
    { <<0, "brk", "Implied">>, <<1, "ora", "Indirect_X">>,
      <<5, "ora", "Zeropage">>, <<6, "asl", "Zeropage">>,
      <<8, "php", "Implied">>, <<9, "ora", "Immediate">>,
      <<10, "asl", "Accumulator">>, <<13, "ora", "Absolute">>,
      <<14, "asl", "Absolute">>, <<16, "bpl", "Relative">>,
      <<17, "ora", "Indirect_Y">>, <<21, "ora", "Zeropage_X">>,
      <<22, "asl", "Zeropage_X">>, <<24, "clc", "Implied">>,
      <<25, "ora", "Absolute_Y">>, <<29, "ora", "Absolute_X">>,
      <<30, "asl", "Absolute_X">>, <<32, "jsr", "Absolute">>,
      <<33, "and", "Indirect_X">>, <<36, "bit", "Zeropage">>,
      <<37, "and", "Zeropage">>, <<38, "rol", "Zeropage">>,
      <<40, "plp", "Implied">>, <<41, "and", "Immediate">>,
      <<42, "rol", "Accumulator">>, <<44, "bit", "Absolute">>,
      <<45, "and", "Absolute">>, <<46, "rol", "Absolute">>,
      <<48, "bmi", "Relative">>, <<49, "and", "Indirect_Y">>,
      <<53, "and", "Zeropage_X">>, <<54, "rol", "Zeropage_X">>,
      <<56, "sec", "Implied">>, <<57, "and", "Absolute_Y">>,
      <<61, "and", "Absolute_X">>, <<62, "rol", "Absolute_X">>,
      <<64, "rti", "Implied">>, <<65, "eor", "Indirect_X">>,
      <<69, "eor", "Zeropage">>, <<70, "lsr", "Zeropage">>,
      <<72, "pha", "Implied">>, <<73, "eor", "Immediate">>,
      <<74, "lsr", "Accumulator">>, <<76, "jmp", "Absolute">>,
      <<77, "eor", "Absolute">>, <<78, "lsr", "Absolute">>,
      <<80, "bvc", "Relative">>, <<81, "eor", "Indirect_Y">>,
      <<85, "eor", "Zeropage_X">>, <<86, "lsr", "Zeropage_X">>,
      <<88, "cli", "Implied">>, <<89, "eor", "Absolute_Y">>,
      <<93, "eor", "Absolute_X">>, <<94, "lsr", "Absolute_X">>,
      <<96, "rts", "Implied">>, <<97, "adc", "Indirect_X">>,
      <<101, "adc", "Zeropage">>, <<102, "ror", "Zeropage">>,
      <<104, "pla", "Implied">>, <<105, "adc", "Immediate">>,
      <<106, "ror", "Accumulator">>, <<108, "jmp", "Indirect">>,
      <<109, "adc", "Absolute">>, <<110, "ror", "Absolute">>,
      <<112, "bvs", "Relative">>, <<113, "adc", "Indirect_Y">>,
      <<117, "adc", "Zeropage_X">>, <<118, "ror", "Zeropage_X">>,
      <<120, "sei", "Implied">>, <<121, "adc", "Absolute_Y">>,
      <<125, "adc", "Absolute_X">>, <<126, "ror", "Absolute_X">>,
      <<129, "sta", "Indirect_X">>, <<132, "sty", "Zeropage">>,
      <<133, "sta", "Zeropage">>, <<134, "stx", "Zeropage">>,
      <<136, "dey", "Implied">>, <<138, "txa", "Implied">>,
      <<140, "sty", "Absolute">>, <<141, "sta", "Absolute">>,
      <<142, "stx", "Absolute">>, <<144, "bcc", "Relative">>,
      <<145, "sta", "Indirect_Y">>, <<148, "sty", "Zeropage_X">>,
      <<149, "sta", "Zeropage_X">>, <<150, "stx", "Zeropage_Y">>,
      <<152, "tya", "Implied">>, <<153, "sta", "Absolute_Y">>,
      <<154, "txs", "Implied">>, <<157, "sta", "Absolute_X">>,
      <<160, "ldy", "Immediate">>, <<161, "lda", "Indirect_X">>,
      <<162, "ldx", "Immediate">>, <<164, "ldy", "Zeropage">>,
      <<165, "lda", "Zeropage">>, <<166, "ldx", "Zeropage">>,
      <<168, "tay", "Implied">>, <<169, "lda", "Immediate">>,
      <<170, "tax", "Implied">>, <<172, "ldy", "Absolute">>,
      <<173, "lda", "Absolute">>, <<174, "ldx", "Absolute">>,
      <<176, "bcs", "Relative">>, <<177, "lda", "Indirect_Y">>,
      <<180, "ldy", "Zeropage_X">>, <<181, "lda", "Zeropage_X">>,
      <<182, "ldx", "Zeropage_Y">>, <<184, "clv", "Implied">>,
      <<185, "lda", "Absolute_Y">>, <<186, "tsx", "Implied">>,
      <<188, "ldy", "Absolute_X">>, <<189, "lda", "Absolute_X">>,
      <<190, "ldx", "Absolute_Y">>, <<192, "cpy", "Immediate">>,
      <<193, "cmp", "Indirect_X">>, <<196, "cpy", "Zeropage">>,
      <<197, "cmp", "Zeropage">>, <<198, "dec", "Zeropage">>,
      <<200, "iny", "Implied">>, <<201, "cmp", "Immediate">>,
      <<202, "dex", "Implied">>, <<204, "cpy", "Absolute">>,
      <<205, "cmp", "Absolute">>, <<206, "dec", "Absolute">>,
      <<208, "bne", "Relative">>, <<209, "cmp", "Indirect_Y">>,
      <<213, "cmp", "Zeropage_X">>, <<214, "dec", "Zeropage_X">>,
      <<216, "cld", "Implied">>, <<217, "cmp", "Absolute_Y">>,
      <<221, "cmp", "Absolute_X">>, <<222, "dec", "Absolute_X">>,
      <<224, "cpx", "Immediate">>, <<225, "sbc", "Indirect_X">>,
      <<228, "cpx", "Zeropage">>, <<229, "sbc", "Zeropage">>,
      <<230, "inc", "Zeropage">>, <<232, "inx", "Implied">>,
      <<233, "sbc", "Immediate">>, <<234, "nop", "Implied">>,
      <<236, "cpx", "Absolute">>, <<237, "sbc", "Absolute">>,
      <<238, "inc", "Absolute">>, <<240, "beq", "Relative">>,
      <<241, "sbc", "Indirect_Y">>, <<245, "sbc", "Zeropage_X">>,
      <<246, "inc", "Zeropage_X">>, <<248, "sed", "Implied">>,
      <<249, "sbc", "Absolute_Y">>, <<253, "sbc", "Absolute_X">>,
      <<254, "inc", "Absolute_X">> }

LegalOpcodes == { l[1] : l \in Legal }

\* the entry of an opcode in the legal map
LegalOf(code) == CHOOSE l \in Legal : l[1] = code

\* run() is about to execute an instruction whose mnemonic is one of mnemonics
Fetches(mnemonics) ==
    /\ at = "run"
    /\ Fetched.panic = "none"
    /\ Fetched.v \in LegalOpcodes
    /\ LegalOf(Fetched.v)[2] \in mnemonics

\* the addressing mode, in the legal map, of the instruction at PC
LegalMode == LegalOf(Fetched.v)[3]

\* the 16-bit operand of the instruction at PC
Operand16 == Immediate + 256 * Cell(cpu.memory, cpu.program_counter + 2)

\* the little-endian word at `base` in page zero, the high byte wrapping in the page
ZeroPageWord(base) ==
    Cell(cpu.memory, base) + 256 * Cell(cpu.memory, (base + 1) % 256)

\* the effective address of the instruction at PC, by the table of section 4.2
EffectiveAddress(mode) ==
    CASE mode = "Immediate" -> cpu.program_counter + 1
      [] mode = "Zeropage" -> Immediate
      [] mode = "Zeropage_X" -> (Immediate + cpu.register_x) % 256
      [] mode = "Zeropage_Y" -> (Immediate + cpu.register_y) % 256
      [] mode = "Absolute" -> Operand16
      [] mode = "Absolute_X" -> (Operand16 + cpu.register_x) % 65536
      [] mode = "Absolute_Y" -> (Operand16 + cpu.register_y) % 65536
      [] mode = "Indirect_X" -> ZeroPageWord((Immediate + cpu.register_x) % 256)
      [] mode = "Indirect_Y" -> (ZeroPageWord(Immediate) + cpu.register_y) % 65536

\* the operand M of the instruction at PC
OperandValue == Cell(cpu.memory, EffectiveAddress(LegalMode))

\* the step changes nothing of the CPU but its status and its program counter
OnlyStatusAndPc ==
    cpu' = [cpu EXCEPT !.status = cpu'.status,
                       !.program_counter = cpu'.program_counter]

----------------------------------------------------------------------------
(* Properties of the compare and bit-test handlers, checked under           *)
(* SpecCompare.                                                             *)

\* the register a compare instruction compares: A for CMP, X for CPX, Y for CPY
Compared(mnemonic) ==
    CASE mnemonic = "cmp" -> cpu.register_a
      [] mnemonic = "cpx" -> cpu.register_x
      [] mnemonic = "cpy" -> cpu.register_y

\* C12, as the specification states it: CMP, CPX and CPY, for every register
\* value r and operand M, r < M included, complete without fault, set Z iff
\* r = M, C iff r >= M and N to bit 7 of (r - M) mod 256, and change no
\* register and no memory cell.
C12_CompareFlags ==
    [][Fetches({"cmp", "cpx", "cpy"}) =>
          LET flags(r, M) ==
                  /\ cpu'.panic = "none"
                  /\ is_flag_set(ZERO_FLAG, cpu'.status) <=> r = M
                  /\ is_flag_set(CARRY_FLAG, cpu'.status) <=> r >= M
                  /\ is_flag_set(NEGATIVE_FLAG, cpu'.status) <=> (r - M) % 256 >= 128
                  /\ OnlyStatusAndPc
          IN  flags(Compared(LegalOf(Fetched.v)[2]), OperandValue)]_vars

\* C, I and D
CarryInterruptDecimal == CARRY_FLAG + INTERRUPT_FLAG + DECIMAL_FLAG

\* C13: BIT, for every A and operand M, sets Z iff (A & M) = 0, N to bit 7
\* of M and V to bit 6 of M, and leaves A, X, Y, SP, C, I, D and all of
\* memory as they are.
C13_Bit ==
    [][Fetches({"bit"}) =>
          LET tested(M) ==
                  /\ cpu'.panic = "none"
                  /\ is_flag_set(ZERO_FLAG, cpu'.status)
                         <=> BitAnd(cpu.register_a, M) = 0
                  /\ is_flag_set(NEGATIVE_FLAG, cpu'.status) <=> M >= 128
                  /\ is_flag_set(OVERFOW_FLAG, cpu'.status) <=> BitAnd(M, 64) = 64
                  /\ BitAnd(cpu'.status, CarryInterruptDecimal)
                         = BitAnd(cpu.status, CarryInterruptDecimal)
                  /\ OnlyStatusAndPc
          IN  tested(OperandValue)]_vars

\* BIT 0x10 has run with A = 0x40, mem[0x10] = 0xC0 and P = 0xCF: N and V
\* are set, Z is clear, C, I and D are still set
C13_Witness ==
    /\ Cell(cpu.memory, 32768) = 36 /\ Cell(cpu.memory, 32769) = 16
    /\ cpu.program_counter = 32770
    /\ Cell(cpu.memory, 16) = 192
    /\ cpu.register_a = 64
    /\ cpu.status = 205

----------------------------------------------------------------------------
(* Scenario 6 of the specification, checked under Spec.                     *)

\* load_and_run of LDA #0x80; BIT 0x0000 has returned on a CPU whose cell
\* 0x0000 the caller had set to 0x40 and whose cell after the image holds
\* the BRK, 0x00
Scenario6Ran ==
    /\ at = "returned"
    /\ call = <<"load_and_run", <<169, 128, 44, 0, 0>>>>
    /\ Cell(cpu.memory, 0) = 64
    /\ Cell(cpu.memory, 32768 + 5) = 0

\* C14, as the specification states it: the scenario ends with V = 1, N = 0
\* and Z = 0.
C14_Scenario6ZeroClear ==
    Scenario6Ran =>
        /\ is_flag_set(OVERFOW_FLAG, cpu.status)
        /\ ~is_flag_set(NEGATIVE_FLAG, cpu.status)
        /\ ~is_flag_set(ZERO_FLAG, cpu.status)

\* C14, as the code has it: the scenario ends with V = 1, N = 0 and Z = 1,
\* because A & M = 0x80 & 0x40 is 0.
C14_Scenario6ZeroSet ==
    Scenario6Ran =>
        /\ is_flag_set(OVERFOW_FLAG, cpu.status)
        /\ ~is_flag_set(NEGATIVE_FLAG, cpu.status)
        /\ is_flag_set(ZERO_FLAG, cpu.status)

\* the scenario has run: A = 0x80, P = V | Z
C14_Witness ==
    /\ Scenario6Ran
    /\ cpu.register_a = 128
    /\ cpu.status = OVERFOW_FLAG + ZERO_FLAG
    /\ cpu.program_counter = 32768 + 6

----------------------------------------------------------------------------
(* Properties of the load, store and transfer handlers, checked under       *)
(* SpecMove.                                                                *)

\* the register a load or a transfer writes, after the step
DestinationAfter(mnemonic) ==
    CASE mnemonic \in {"lda", "txa", "tya"} -> cpu'.register_a
      [] mnemonic \in {"ldx", "tax", "tsx"} -> cpu'.register_x
      [] mnemonic \in {"ldy", "tay"} -> cpu'.register_y

\* C15: after LDA, LDX, LDY, TAX, TXA, TAY, TYA and TSX, Z is set iff the
\* destination register is 0 and N iff its bit 7 is set; TXS copies X into
\* SP and changes no bit of P.
C15_LoadAndTransferFlags ==
    [][/\ Fetches({"lda", "ldx", "ldy", "tax", "txa", "tay", "tya", "tsx"}) =>
              LET flags(destination) ==
                      /\ cpu'.panic = "none"
                      /\ is_flag_set(ZERO_FLAG, cpu'.status) <=> destination = 0
                      /\ is_flag_set(NEGATIVE_FLAG, cpu'.status) <=> destination >= 128
              IN  flags(DestinationAfter(LegalOf(Fetched.v)[2]))
       /\ Fetches({"txs"}) =>
              /\ cpu'.panic = "none"
              /\ cpu'.stackpointer = cpu.register_x
              /\ cpu'.status = cpu.status]_vars

\* TSX has run with SP = 0x00, A = 0x40, Y = 0xFF: X = 0 and, of N and Z,
\* only Z is set
C15_Witness ==
    /\ Cell(cpu.memory, 32768) = 186
    /\ cpu.program_counter = 32769
    /\ cpu.stackpointer = 0 /\ cpu.register_x = 0
    /\ cpu.register_a = 64 /\ cpu.register_y = 255
    /\ cpu.status = 79

\* the register a store instruction stores: A for STA, X for STX, Y for STY
Stored(mnemonic) ==
    CASE mnemonic = "sta" -> cpu.register_a
      [] mnemonic = "stx" -> cpu.register_x
      [] mnemonic = "sty" -> cpu.register_y

\* the step stores `data` at `addr` and changes nothing else but PC
StoresOnly(addr, data) ==
    cpu' = [cpu EXCEPT !.memory = Store(cpu.memory, addr, data),
                       !.program_counter = cpu'.program_counter]

\* C16, as the specification states it: STA, STX and STY, in each of their
\* addressing modes, write the register to the effective address and change
\* nothing else: P, A, X, Y, SP and every other memory cell stay as they are.
C16_StoreFrame ==
    [][Fetches({"sta", "stx", "sty"}) =>
          StoresOnly(EffectiveAddress(LegalMode), Stored(LegalOf(Fetched.v)[2]))]_vars

\* C17, as the specification states it: opcode 0x94, STY Zero Page,X, stores
\* Y at (mem[PC] + X) mod 256 and changes nothing else but PC.
C17_StyZeroPageX ==
    [][Executes(148) =>
          StoresOnly((Immediate + cpu.register_x) % 256, cpu.register_y)]_vars

----------------------------------------------------------------------------
(* Properties of the decode table, checked under SpecRun.                   *)

\* C18: every legal opcode executes without the fault of an unimplemented
\* opcode (JSR 0x20, RTS 0x60 and RTI 0x40 among them), and NOP (0xEA)
\* changes nothing but the program counter, which passes the opcode
C18_LegalOpcodesExecute ==
    [][(at = "run" /\ Fetched.panic = "none" /\ Fetched.v \in LegalOpcodes) =>
          /\ cpu'.panic # NotImplemented
          /\ Fetched.v = 234 =>
                 cpu' = [cpu EXCEPT !.program_counter = cpu.program_counter + 1]]_vars

\* the word a 6502 reads through the pointer `ptr` of JMP (ptr): the high
\* byte comes from the start of the same page when ptr ends in 0xFF
PageWrapWord(ptr) ==
    Cell(cpu.memory, ptr) + 256 * Cell(cpu.memory, (ptr \div 256) * 256 + ((ptr + 1) % 256))

\* C19: JMP Indirect (0x6C) sets the program counter to the word read, with
\* the page-wrap rule, through the pointer that follows the opcode
C19_JmpIndirect ==
    [][Executes(108) =>
          /\ cpu'.panic = "none"
          /\ cpu'.program_counter = PageWrapWord(Operand16)]_vars

----------------------------------------------------------------------------
(* SpecSub: the subroutine handlers, called one after the other as a test  *)
(* of mod test can call them (no arm of run reaches jsr, rts or rti). The   *)
(* CPU has loaded a program whose last instruction is JSR target and has    *)
(* fetched that opcode: the program counter is at the first operand byte.   *)
(* The three bytes above the stack pointer hold a frame to return through.  *)

\* how many zero bytes come before the JSR: its operand starts or ends a page
SubPaddings == {0, 253, 254, 255}

\* the low and high byte of the target
SubTargets == { <<0, 0>>, <<52, 18>>, <<255, 254>> }

SubStackpointers == {0, 1, 128, 255}

\* the bytes at 0x0100 + SP + 1, + 2 and + 3: for RTI a status, then the low
\* and the high byte of an address
SubFrames == { <<0, 0, 128>>, <<16, 52, 18>>, <<223, 255, 18>>, <<255, 255, 255>> }

InitSub ==
    /\ \E n \in SubPaddings, t \in SubTargets, sp \in SubStackpointers, f \in SubFrames :
            cpu = [reset(load(new, [i \in 1 .. n |-> 0] \o <<32, t[1], t[2]>>)) EXCEPT
                      !.memory = Store(Store(Store(@, 256 + ((sp + 1) % 256), f[1]),
                                             256 + ((sp + 2) % 256), f[2]),
                                       256 + ((sp + 3) % 256), f[3]),
                      !.program_counter = 32768 + n + 1,
                      !.stackpointer = sp]
    /\ at = "idle"
    /\ overflow_checks \in BOOLEAN
    /\ calls = 0
    /\ call = <<"new">>

\* self.jsr(&AddressingMode::Absolute); the call is recorded with the program
\* counter and the stack pointer it found
Jsr ==
    /\ Callable
    /\ cpu' = jsr(cpu, "Absolute")
    /\ at' = Outcome(cpu')
    /\ calls' = calls + 1
    /\ call' = <<"jsr", cpu.program_counter, cpu.stackpointer>>
    /\ UNCHANGED overflow_checks

\* self.rts()
Rts ==
    /\ Callable
    /\ cpu' = rts(cpu)
    /\ at' = Outcome(cpu')
    /\ calls' = calls + 1
    /\ call' = <<"rts">>
    /\ UNCHANGED overflow_checks

\* self.rti()
Rti ==
    /\ Callable
    /\ cpu' = rti(cpu)
    /\ at' = Outcome(cpu')
    /\ calls' = calls + 1
    /\ call' = <<"rti">>
    /\ UNCHANGED overflow_checks

NextSub == Jsr \/ Rts \/ Rti

SpecSub == InitSub /\ [][NextSub]_vars

----------------------------------------------------------------------------
(* Properties of the subroutine handlers, checked under SpecSub.            *)

\* the cpu after the 6502 has pushed the word `data`, high byte first, and
\* gone to `target`
PushedWordAndWent(data, target) ==
    [cpu EXCEPT !.memory = Store(Store(@, 256 + cpu.stackpointer, data \div 256),
                                 256 + ((cpu.stackpointer - 1) % 256), data % 256),
                !.stackpointer = (cpu.stackpointer - 2) % 256,
                !.program_counter = target]

\* C20: JSR Absolute pushes the address of the last byte of the JSR
\* instruction (the address of its first operand byte, plus 1), the high
\* byte at 0x0100 + SP and the low byte at 0x0100 + SP - 1, lowers SP by 2
\* and sets the program counter to the target
C20_JsrPushesLastByte ==
    [][Calls("jsr") =>
          cpu' = PushedWordAndWent(cpu.program_counter + 1,
                                   Cell(cpu.memory, cpu.program_counter)
                                     + 256 * Cell(cpu.memory, cpu.program_counter + 1))]_vars

\* C21: an RTS that follows a JSR resumes at the instruction right after the
\* two operand bytes of the JSR and leaves SP as it was before the JSR, also
\* when the low byte of the return address is 0xFF
C21_JsrRtsRoundTrip ==
    [][(call[1] = "jsr" /\ Calls("rts")) =>
          /\ cpu'.panic = "none"
          /\ cpu'.program_counter = (call[2] + 2) % 65536
          /\ cpu'.stackpointer = call[3]]_vars

\* the byte that is `k` places above the top of the stack, the stack being
\* page 1 and SP wrapping within it
Stacked(k) == Cell(cpu.memory, 256 + ((cpu.stackpointer + k) % 256))

\* C22: RTI pops P with B cleared and bit 5 set, then the low and the high
\* byte of PC, sets PC to exactly that word (no + 1), and leaves SP 3 higher
C22_Rti ==
    [][Calls("rti") =>
          cpu' = [cpu EXCEPT
                     !.status = BitOr(BitAnd(Stacked(1), 255 - BREAK_FLAG), INVALID_FLAG),
                     !.program_counter = Stacked(2) + 256 * Stacked(3),
                     !.stackpointer = (cpu.stackpointer + 3) % 256]]_vars

----------------------------------------------------------------------------
(* SpecStack: run() of a program of pushes and pulls on a CPU whose         *)
(* registers the caller has set after load and reset, as a test can (the    *)
(* fields are pub). The call is recorded with the image and the CPU that    *)
(* run() found.                                                             *)

\* LDA #vs[1], PHA, ..., LDA #vs[n], PHA, then n PLA, then BRK: the program
\* of test_0x68_pla, for the values vs
LifoProgram(vs) ==
    [i \in 1 .. 4 * Len(vs) + 1 |->
        IF i = 4 * Len(vs) + 1 THEN 0
        ELSE IF i > 3 * Len(vs) THEN 104
        ELSE IF i % 3 = 1 THEN 169
        ELSE IF i % 3 = 2 THEN vs[(i + 1) \div 3]
        ELSE 72]

StackPrograms ==
    { <<72, 104, 0>>,                 \* PHA PLA
      <<72, 169, 64, 104, 0>>,        \* PHA, LDA #0x40, PLA
      <<72, 8, 24, 40, 104, 0>>,      \* PHA PHP CLC PLP PLA
      <<8, 40, 0>>,                   \* PHP PLP
      <<8, 24, 40, 0>>,               \* PHP CLC PLP
      <<8, 56, 248, 40, 0>>,          \* PHP SEC SED PLP
      <<56, 8, 24, 40, 0>>,           \* SEC PHP CLC PLP (test_0x28_plp)
      <<104, 0>>,                     \* PLA
      <<40, 0>> }                     \* PLP
        \cup { LifoProgram(vs) :
                 vs \in UNION { [1 .. n -> {17, 128}] : n \in 1 .. MaxInstr } }

\* the status set by the caller, and the byte above the stack pointer
StackStatus == {0, 16, 207, 255}

InitStack ==
    /\ \E image \in StackPrograms, a \in InstrRegs, sp \in SubStackpointers,
          p \in StackStatus, top \in StackStatus :
            /\ cpu = [reset(load(new, image)) EXCEPT
                         !.memory = Store(@, 256 + ((sp + 1) % 256), top),
                         !.register_a = a, !.stackpointer = sp, !.status = p]
            /\ call = <<"run", image, cpu>>
    /\ at = "run"
    /\ overflow_checks \in BOOLEAN
    /\ calls = 1

SpecStack == InitStack /\ [][Step]_vars

----------------------------------------------------------------------------
(* Properties of the stack instructions, checked under SpecStack.           *)

\* the programs that push A and pull it back, the stack balanced in between
\* and the pushed cell not written
PhaPlaPrograms == { <<72, 104, 0>>, <<72, 169, 64, 104, 0>>, <<72, 8, 24, 40, 104, 0>> }

\* C23: once PHA and then PLA have run, the stack balanced in between, A is
\* the pushed value again and SP is what it was before the PHA; N and Z are
\* those of the restored A
C23_PhaPlaRoundTrip ==
    (call[1] = "run" /\ call[2] \in PhaPlaPrograms /\ at = "returned") =>
        /\ cpu.register_a = call[3].register_a
        /\ cpu.stackpointer = call[3].stackpointer
        /\ is_flag_set(ZERO_FLAG, cpu.status) <=> call[3].register_a = 0
        /\ is_flag_set(NEGATIVE_FLAG, cpu.status) <=> call[3].register_a >= 128

\* PHA, LDA #0x40, PLA has run with A = 0xFF and SP = 0x00, where the push
\* wraps SP to 0xFF: A is 0xFF again, SP is 0x00, and of N and Z only N is set
C23_Witness ==
    /\ at = "returned"
    /\ call[1] = "run"
    /\ call[2] = <<72, 169, 64, 104, 0>>
    /\ call[3].register_a = 255
    /\ call[3].stackpointer = 0
    /\ call[3].status = 0
    /\ cpu.register_a = 255
    /\ cpu.stackpointer = 0
    /\ cpu.status = NEGATIVE_FLAG

\* C24: PHP writes P with B (bit 4) and U (bit 5) set at 0x0100 + SP and
\* leaves P itself unchanged; the pushed status byte has bit 5 set; a PHP
\* that completes has lowered SP by 1 and changed nothing else
C24_Php ==
    [][Executes(8) =>
          /\ cpu'.memory = Store(cpu.memory, 256 + cpu.stackpointer,
                                 BitOr(cpu.status, BREAK_FLAG + INVALID_FLAG))
          /\ is_flag_set(INVALID_FLAG, Cell(cpu'.memory, 256 + cpu.stackpointer))
          /\ cpu'.status = cpu.status
          /\ cpu'.panic = "none" =>
                 cpu' = [cpu EXCEPT
                            !.memory = cpu'.memory,
                            !.stackpointer = (cpu.stackpointer - 1) % 256,
                            !.program_counter = cpu.program_counter + 1]]_vars

\* PHP has run with P = 0xCF and SP = 0x00: 0xFF is at 0x0100, SP has wrapped
\* to 0xFF and P is still 0xCF
C24_Witness ==
    /\ Cell(cpu.memory, 32768) = 8
    /\ cpu.program_counter = 32769
    /\ cpu.panic = "none"
    /\ cpu.status = 207
    /\ cpu.stackpointer = 255
    /\ Cell(cpu.memory, 256) = 255

\* the flags PLP restores: C, Z, I, D, V, N
RestoredFlags == 255 - BREAK_FLAG - INVALID_FLAG

\* C25: PLP restores C, Z, I, D, V and N from the popped byte, leaves the B
\* flag of P as it was before the PLP and forces bit 5 of P to 1
C25_PlpKeepsBreak ==
    [][Executes(40) =>
          /\ cpu'.panic = "none"
          /\ BitAnd(cpu'.status, RestoredFlags) = BitAnd(Stacked(1), RestoredFlags)
          /\ is_flag_set(BREAK_FLAG, cpu'.status) <=> is_flag_set(BREAK_FLAG, cpu.status)
          /\ is_flag_set(INVALID_FLAG, cpu'.status)]_vars

\* the programs that push P, change flags and pull P back
PhpPlpPrograms == { <<8, 40, 0>>, <<8, 24, 40, 0>>, <<8, 56, 248, 40, 0>> }

\* C26: PLP sets P to exactly the popped byte; once PHP, any flag changes
\* and PLP have run, P is the status before the PHP with bits 4 and 5 set
\* and SP is what it was before the PHP; SEC, PHP, CLC, PLP gives
\* P = 0b0011_0001
C26_PhpPlpRoundTrip ==
    [][/\ (Executes(40) /\ cpu'.panic = "none") => cpu'.status = Stacked(1)
       /\ (call[1] = "run" /\ call[2] \in PhpPlpPrograms /\ at' = "returned") =>
              /\ cpu'.status = BitOr(call[3].status, BREAK_FLAG + INVALID_FLAG)
              /\ cpu'.stackpointer = call[3].stackpointer
       /\ (call[1] = "run" /\ call[2] = <<56, 8, 24, 40, 0>> /\ at' = "returned") =>
              /\ cpu'.status = BitOr(BitOr(call[3].status, CARRY_FLAG),
                                     BREAK_FLAG + INVALID_FLAG)
              /\ call[3].status = 0 => cpu'.status = 49
              /\ cpu'.stackpointer = call[3].stackpointer]_vars

\* SEC, PHP, CLC, PLP has run from P = 0 and SP = 0xFF: P = 0b0011_0001, the
\* pushed byte, and SP is 0xFF again
C26_Witness ==
    /\ at = "returned"
    /\ call[1] = "run"
    /\ call[2] = <<56, 8, 24, 40, 0>>
    /\ call[3].status = 0
    /\ call[3].stackpointer = 255
    /\ cpu.status = 49
    /\ Cell(cpu.memory, 511) = 49
    /\ cpu.stackpointer = 255

\* C27: stack-pointer arithmetic wraps modulo 256 without a fault: PHA or PHP
\* with SP = 0x00 writes at 0x0100 and leaves SP = 0xFF; PLA or PLP with
\* SP = 0xFF reads 0x0100 and leaves SP = 0x00
C27_StackPointerWraps ==
    [][/\ (Executes(72) /\ cpu.stackpointer = 0) =>
              /\ cpu'.panic = "none"
              /\ Cell(cpu'.memory, 256) = cpu.register_a
              /\ cpu'.stackpointer = 255
       /\ (Executes(8) /\ cpu.stackpointer = 0) =>
              /\ cpu'.panic = "none"
              /\ Cell(cpu'.memory, 256) = BitOr(cpu.status, BREAK_FLAG + INVALID_FLAG)
              /\ cpu'.stackpointer = 255
       /\ (Executes(104) /\ cpu.stackpointer = 255) =>
              /\ cpu'.panic = "none"
              /\ cpu'.register_a = Cell(cpu.memory, 256)
              /\ cpu'.stackpointer = 0
       /\ (Executes(40) /\ cpu.stackpointer = 255) =>
              /\ cpu'.panic = "none"
              /\ BitAnd(cpu'.status, RestoredFlags) = BitAnd(Cell(cpu.memory, 256), RestoredFlags)
              /\ cpu'.stackpointer = 0]_vars

----------------------------------------------------------------------------
(* Properties of the faults of run, checked under SpecRun.                  *)

\* two faulting fetches: the byte 0x02 at 0x8000 and the byte 0x03 at 0x8001
FaultProbes == { <<32768, 2>>, <<32769, 3>> }

\* what the caller is told when run fetches the byte probe[2] at probe[1]
ReportOf(probe) ==
    run_iteration([new EXCEPT !.memory = Store(@, probe[1], probe[2]),
                              !.program_counter = probe[1]]).s.panic

\* C29: when run fetches a byte that is no legal opcode, the run ends in a
\* fault, no further instruction has acted on the CPU, and the report to the
\* caller tells the faulting PC and the opcode: no fetch of another byte or
\* at another PC is reported the same
C29_IllegalOpcodeReport ==
    [][(at = "run" /\ Fetched.panic = "none" /\ Fetched.v \notin LegalOpcodes) =>
          /\ at' = "panicked"
          /\ cpu' = [cpu EXCEPT !.panic = cpu'.panic,
                                !.program_counter = cpu.program_counter + 1]
          /\ \A probe \in FaultProbes :
                 ReportOf(probe) = cpu'.panic =>
                     (probe[1] = cpu.program_counter /\ probe[2] = Fetched.v)]_vars

----------------------------------------------------------------------------
(* SpecBranch: run() on a CPU where the caller has written one branch, with *)
(* every operand byte, or one SEC, at the bottom, in the middle or at the   *)
(* top of the memory, and has set the program counter on it (mem_write and  *)
(* the fields are pub).                                                     *)

\* BPL, BMI, BVC, BVS, BCC, BCS, BNE, BEQ with each operand byte, and SEC
BranchImages ==
    { <<code, b>> : code \in {16, 48, 80, 112, 144, 176, 208, 240}, b \in Byte }
        \cup { <<56, 0>> }

\* where the opcode is written
BranchOrigins == {0, 32768, 65533, 65534}

InitBranch ==
    /\ \E image \in BranchImages, origin \in BranchOrigins,
          p \in InstrStatus \cup {CARRY_FLAG, ZERO_FLAG, OVERFOW_FLAG, NEGATIVE_FLAG} :
            /\ (origin + 1 < MEMORY_LEN \/ image[2] = 0)
            /\ cpu = [new EXCEPT
                         !.memory = Store(Store(@, origin, image[1]), origin + 1, image[2]),
                         !.program_counter = origin,
                         !.status = p]
    /\ at = "run"
    /\ overflow_checks \in BOOLEAN
    /\ calls = 1
    /\ call = <<"run">>

SpecBranch == InitBranch /\ [][Step]_vars

----------------------------------------------------------------------------
(* Properties of the program counter, checked under SpecBranch.             *)

\* whether the 6502 takes the branch `mnemonic` with the flags of the CPU
Taken(mnemonic) ==
    CASE mnemonic = "bcc" -> ~is_flag_set(CARRY_FLAG, cpu.status)
      [] mnemonic = "bcs" -> is_flag_set(CARRY_FLAG, cpu.status)
      [] mnemonic = "bne" -> ~is_flag_set(ZERO_FLAG, cpu.status)
      [] mnemonic = "beq" -> is_flag_set(ZERO_FLAG, cpu.status)
      [] mnemonic = "bpl" -> ~is_flag_set(NEGATIVE_FLAG, cpu.status)
      [] mnemonic = "bmi" -> is_flag_set(NEGATIVE_FLAG, cpu.status)
      [] mnemonic = "bvc" -> ~is_flag_set(OVERFOW_FLAG, cpu.status)
      [] mnemonic = "bvs" -> is_flag_set(OVERFOW_FLAG, cpu.status)

Branches == {"bcc", "bcs", "bne", "beq", "bpl", "bmi", "bvc", "bvs"}

\* where the 6502 fetches next after the branch at PC, whose operand byte b
\* is at p = PC + 1: p + 1 + signext(b) if taken, p + 1 if not
AfterBranch(mnemonic, p, b) ==
    IF Taken(mnemonic) THEN (p + 1 + (IF b >= 128 THEN b - 256 ELSE b)) % 65536
    ELSE (p + 1) % 65536

\* C30: after a taken branch whose operand byte b is at p the next fetch is
\* from (p + 1 + signext(b)) mod 65536, for every b; after a branch not taken
\* it is from p + 1; nothing but the program counter changes
C30_BranchTarget ==
    [][(Fetches(Branches) /\ cpu'.panic = "none") =>
          cpu' = [cpu EXCEPT !.program_counter =
                     AfterBranch(LegalOf(Fetched.v)[2], cpu.program_counter + 1,
                                 Cell(cpu.memory, cpu.program_counter + 1))]]_vars

\* BCC with the operand 0x80 at p = 0x0001 has been taken:
\* the next fetch is from 0x0001 + 1 - 128 mod 65536 = 0xFF82
C30_Witness ==
    /\ Cell(cpu.memory, 0) = 144
    /\ Cell(cpu.memory, 1) = 128
    /\ cpu.status = 0
    /\ cpu.program_counter = 65410
    /\ at = "run"

\* C28: program-counter arithmetic wraps modulo 65536 without a fault: a
\* branch or a SEC fetched near the ends of the memory, and any fetch at
\* 0xFFFF, is followed by the fetch at (PC + k) mod 65536
C28_ProgramCounterWraps ==
    [][/\ Fetches(Branches) =>
              /\ cpu'.panic = "none"
              /\ cpu'.program_counter =
                     AfterBranch(LegalOf(Fetched.v)[2], cpu.program_counter + 1,
                                 Cell(cpu.memory, cpu.program_counter + 1))
       /\ Executes(56) =>
              /\ cpu'.panic = "none"
              /\ cpu'.program_counter = (cpu.program_counter + 1) % 65536
       /\ (at = "run" /\ cpu.program_counter = 65535) =>
              /\ cpu'.panic = "none"
              /\ cpu'.program_counter = 0]_vars

\* C31: each branch is taken exactly on its named condition (with an operand
\* other than 0 the next fetch is away from p + 1 iff the condition holds),
\* and no branch, taken or not, changes P, A, X, Y, SP or memory
C31_BranchConditions ==
    [][(Fetches(Branches) /\ cpu'.panic = "none") =>
          /\ Cell(cpu.memory, cpu.program_counter + 1) # 0 =>
                 (cpu'.program_counter # (cpu.program_counter + 2) % 65536
                      <=> Taken(LegalOf(Fetched.v)[2]))
          /\ cpu'.status = cpu.status
          /\ cpu'.register_a = cpu.register_a
          /\ cpu'.register_x = cpu.register_x
          /\ cpu'.register_y = cpu.register_y
          /\ cpu'.stackpointer = cpu.stackpointer
          /\ cpu'.memory = cpu.memory]_vars

\* BVS with the operand 0x10 at 0x8000 and only V set has been taken:
\* the next fetch is from 0x8012 and P is still 0x40
C31_Witness ==
    /\ Cell(cpu.memory, 32768) = 112
    /\ Cell(cpu.memory, 32769) = 16
    /\ cpu.status = OVERFOW_FLAG
    /\ cpu.program_counter = 32786
    /\ at = "run"

----------------------------------------------------------------------------
(* SpecShift: run() of one shift, rotate or flag instruction, in each of    *)
(* its addressing modes, on a CPU whose registers and data cells the caller *)
(* has set.                                                                 *)

SpecShift ==
    InitInstr({10, 6, 22, 14, 30, 74, 70, 86, 78, 94, 42, 38, 54, 46, 62,
               106, 102, 118, 110, 126, 24, 56, 88, 120, 216, 248, 184}, {255})
        /\ [][Step]_vars

----------------------------------------------------------------------------
(* Properties of the shifts, rotates and flag instructions, checked under   *)
(* SpecShift.                                                               *)

\* the result of the shift or rotate `mnemonic` of the operand v with the
\* carry-in c
Shifted(mnemonic, v, c) ==
    CASE mnemonic = "asl" -> (2 * v) % 256
      [] mnemonic = "lsr" -> v \div 2
      [] mnemonic = "rol" -> ((2 * v) % 256) + c
      [] mnemonic = "ror" -> (v \div 2) + 128 * c

\* the carry-out of the shift or rotate `mnemonic` of the operand v
ShiftedOut(mnemonic, v) ==
    IF mnemonic \in {"asl", "rol"} THEN v \div 128 ELSE v % 2

\* C32: ASL, LSR, ROL and ROR give the shifted or rotated operand, C is the
\* bit shifted out, N and Z are those of the result (N clear after LSR); the
\* result goes to A in Accumulator mode, memory untouched, and to the
\* effective address otherwise, A untouched
C32_ShiftsAndRotates ==
    [][Fetches({"asl", "lsr", "rol", "ror"}) =>
          LET flags(result, out) ==
                  BitAnd(cpu.status, 255 - CARRY_FLAG - ZERO_FLAG - NEGATIVE_FLAG)
                      + out * CARRY_FLAG
                      + (IF result = 0 THEN ZERO_FLAG ELSE 0)
                      + (IF result >= 128 THEN NEGATIVE_FLAG ELSE 0)
              shifted(mnemonic, mode, v, c) ==
                  /\ cpu'.panic = "none"
                  /\ cpu'.status = flags(Shifted(mnemonic, v, c), ShiftedOut(mnemonic, v))
                  /\ mnemonic = "lsr" => ~is_flag_set(NEGATIVE_FLAG, cpu'.status)
                  /\ IF mode = "Accumulator"
                     THEN cpu' = [cpu EXCEPT
                                     !.register_a = Shifted(mnemonic, v, c),
                                     !.status = cpu'.status,
                                     !.program_counter = cpu'.program_counter]
                     ELSE cpu' = [cpu EXCEPT
                                     !.memory = Store(@, EffectiveAddress(mode),
                                                      Shifted(mnemonic, v, c)),
                                     !.status = cpu'.status,
                                     !.program_counter = cpu'.program_counter]
              on(mnemonic, mode) ==
                  shifted(mnemonic, mode,
                          IF mode = "Accumulator" THEN cpu.register_a ELSE OperandValue,
                          CarryIn)
          IN  on(LegalOf(Fetched.v)[2], LegalMode)]_vars

\* ROR 0x10 has run with mem[0x10] = 0x81, C set and P = 0xCF: mem[0x10] is
\* 0xC0, C and N are set, Z is clear, A and the other cells are untouched
C32_Witness ==
    /\ Cell(cpu.memory, 32768) = 102
    /\ Cell(cpu.memory, 32769) = 16
    /\ cpu.program_counter = 32770
    /\ Cell(cpu.memory, 16) = 192
    /\ Cell(cpu.memory, 0) = 129
    /\ cpu.register_a = 64
    /\ cpu.status = 205

\* the bit of P (as its value) that the flag instruction `mnemonic` names,
\* and whether the instruction sets it
NamedBit(mnemonic) ==
    CASE mnemonic \in {"sec", "clc"} -> 1
      [] mnemonic \in {"sei", "cli"} -> 4
      [] mnemonic \in {"sed", "cld"} -> 8
      [] mnemonic = "clv" -> 64

Sets(mnemonic) == mnemonic \in {"sec", "sei", "sed"}

FlagInstructions == {"sec", "clc", "sei", "cli", "sed", "cld", "clv"}

----------------------------------------------------------------------------
(* The rotates in sequence: CLC, a rotate and the opposite rotate, on the   *)
(* accumulator and on a zero-page cell, for every value of the operand.     *)

\* CLC; ROL A; ROR A / CLC; ROR A; ROL A / CLC; ROL $10; ROR $10 /
\* CLC; ROR $10; ROL $10, each ended by BRK; the memory programs rotate
\* the zero-page cell 0x10
RotatePrograms ==
    { <<24, 42, 106, 0>>, <<24, 106, 42, 0>>,
      <<24, 38, 16, 102, 16, 0>>, <<24, 102, 16, 38, 16, 0>> }

InitRotate ==
    /\ \E image \in RotatePrograms, x \in 0..255, p \in InstrStatus :
            /\ cpu = [reset(load(new, image)) EXCEPT
                         !.memory = Store(@, 16, x),
                         !.register_a = x, !.status = p]
            /\ call = <<"run", image, cpu>>
    /\ at = "run"
    /\ overflow_checks \in BOOLEAN
    /\ calls = 1

SpecRotate == InitRotate /\ [][Step]_vars

\* the operand of the running rotate program, in the CPU state s
RotateOperand(s) ==
    IF Len(call[2]) = 4 THEN s.register_a ELSE Cell(s.memory, 16)

\* the program rotates left first
RolFirst == call[2][2] \in {42, 38}

\* C33: CLC; ROL; ROR returns the operand to x for every x with bit 7 clear,
\* and CLC; ROR; ROL returns it to x for every x with bit 0 clear; C is clear
\* afterwards
C33_RotatesRoundTrip ==
    (call[1] = "run" /\ call[2] \in RotatePrograms /\ at = "returned") =>
        LET round(x) ==
                (IF RolFirst THEN x < 128 ELSE x % 2 = 0) =>
                    /\ RotateOperand(cpu) = x
                    /\ cpu.status % 2 = 0
        IN  round(RotateOperand(call[3]))

\* CLC; ROR $10; ROL $10 has run on x = 0xFE with C set at the start: the
\* cell holds 0xFE again and C is clear
C33_Witness ==
    /\ call[1] = "run" /\ call[2] = <<24, 102, 16, 38, 16, 0>>
    /\ at = "returned"
    /\ call[3].status = 207
    /\ Cell(call[3].memory, 16) = 254
    /\ Cell(cpu.memory, 16) = 254
    /\ cpu.status % 2 = 0

----------------------------------------------------------------------------
(* The decimal flag and the arithmetic, checked under SpecALU.              *)

\* the CPU state s with bit 3 of P, the D flag, inverted
DecimalTwin(s) == [s EXCEPT !.status = IF (@ \div 8) % 2 = 1 THEN @ - 8 ELSE @ + 8]

\* A and the flags C, Z, V, N of the CPU state s
ArithmeticResult(s) ==
    <<s.register_a, s.status % 2, (s.status \div 2) % 2,
      (s.status \div 64) % 2, s.status \div 128>>

\* C35: two CPUs that differ only in the D flag have the same A, C, V, N and
\* Z after the same ADC or SBC with the same operand, and ADC/SBC leave D as
\* it was, in both
C35_DecimalInert ==
    [][Fetches({"adc", "sbc"}) =>
          LET inert(before, after) ==
                  (after.status \div 8) % 2 = (before.status \div 8) % 2
              same(twin) ==
                  /\ ArithmeticResult(cpu') = ArithmeticResult(twin)
                  /\ inert(cpu, cpu')
                  /\ inert(DecimalTwin(cpu), twin)
                  /\ twin.panic = cpu'.panic
          IN  same(run_iteration(DecimalTwin(cpu)).s)]_vars

\* ADC #0x0F has run with A = 0x01, C and D set: A is the binary sum 0x11,
\* where a decimal-mode 6502 gives 0x17, and D is still set
C35_Witness ==
    /\ Cell(cpu.memory, 32768) = 105
    /\ Cell(cpu.memory, 32769) = 15
    /\ cpu.program_counter = 32770
    /\ cpu.register_a = 17
    /\ cpu.status = 8

----------------------------------------------------------------------------
(* SpecInstr: run() on one instruction of every opcode the match of run()   *)
(* has an arm for.                                                          *)

SpecInstr ==
    InitInstr({ Arms[i][1] : i \in 1 .. Len(Arms) }, {255}) /\ [][Step]_vars

\* the number of operand bytes of an addressing mode of the legal map
OperandCount(mode) ==
    CASE mode \in {"Implied", "Accumulator"} -> 0
      [] mode \in {"Immediate", "Zeropage", "Zeropage_X", "Zeropage_Y",
                   "Indirect_X", "Indirect_Y", "Relative"} -> 1
      [] mode \in {"Absolute", "Absolute_X", "Absolute_Y", "Indirect"} -> 2

\* the instruction at PC is a branch that is taken, or a jump
TakenBranchOrJump ==
    \/ LegalOf(Fetched.v)[2] \in {"jmp", "jsr", "rts", "rti"}
    \/ LegalOf(Fetched.v)[2] \in Branches /\ Taken(LegalOf(Fetched.v)[2])

\* C36: after an opcode the match has an arm for, fetched at a, that is not
\* a taken branch or a jump, PC is a + 1 + n, n the number of operand bytes
\* of its addressing mode (0, 1 or 2)
C36_NextOpcode ==
    [][(/\ at = "run"
        /\ Fetched.panic = "none"
        /\ DecodeTable[Fetched.v][2] # "todo"
        /\ Fetched.v \in LegalOpcodes
        /\ ~TakenBranchOrJump
        /\ cpu'.panic = "none")
          => cpu'.program_counter = cpu.program_counter + 1 + OperandCount(LegalMode)]_vars

\* every opcode the match has an arm for is in the legal map
C36_DecodedAreLegal == \A i \in 1 .. Len(Arms) : Arms[i][1] \in LegalOpcodes

\* LDA $0210,X has run at 0x8000 and loaded the filling byte 0x81: PC is 0x8003
C36_Witness ==
    /\ Cell(cpu.memory, 32768) = 189
    /\ Cell(cpu.memory, 32769) = 16
    /\ Cell(cpu.memory, 32770) = 2
    /\ cpu.program_counter = 32771
    /\ cpu.register_a = 129
    /\ cpu.panic = "none"

----------------------------------------------------------------------------
(* SpecResolve: run() on one load or store in a zero-page indexed or        *)
(* indirect mode, on a CPU whose caller wrote the byte lo to every even     *)
(* cell of page zero and the byte hi to every odd one with mem_write, and   *)
(* set the public register fields.  The operand bytes and the indexes       *)
(* reach the last cells of page zero and pointers in the last page.         *)

SpecResolve ==
    /\ \E code \in {181, 180, 182, 161, 177, 149, 148, 150, 129, 145},
          b \in {16, 128, 254, 255}, x \in {0, 1, 64, 255}, y \in {0, 1, 64, 255},
          lo \in {64, 192, 255}, hi \in {2, 255}, p \in InstrStatus :
            /\ lo + hi < 510
            /\ cpu = [reset(load(new, <<code, b, 0>>)) EXCEPT
                      !.memory = [c \in (DOMAIN @) \cup (0 .. 255) |->
                                     IF c < 256 THEN (IF c % 2 = 0 THEN lo ELSE hi)
                                     ELSE @[c]],
                      !.register_a = 90, !.register_x = x, !.register_y = y,
                      !.status = p]
    /\ at = "run"
    /\ overflow_checks \in BOOLEAN
    /\ calls = 1
    /\ call = <<"run">>
    /\ [][Step]_vars

ZeroPageModes == {"Zeropage_X", "Zeropage_Y", "Indirect_X", "Indirect_Y"}

\* the address that the table of section 4.2 gives for a zero-page mode of
\* the instruction at PC, from the operand byte b, the indexes and the memory
ZeroPageAddress(mode, b, s) ==
    CASE mode = "Zeropage_X" -> (b + s.register_x) % 256
      [] mode = "Zeropage_Y" -> (b + s.register_y) % 256
      [] mode = "Indirect_X" ->
            Cell(s.memory, (b + s.register_x) % 256)
                + 256 * Cell(s.memory, (((b + s.register_x) % 256) + 1) % 256)
      [] mode = "Indirect_Y" ->
            (Cell(s.memory, b) + 256 * Cell(s.memory, (b + 1) % 256)
                + s.register_y) % 65536

\* the register that the load or store `mnemonic` moves
Moved(mnemonic) ==
    CASE mnemonic \in {"lda", "sta"} -> "register_a"
      [] mnemonic \in {"ldx", "stx"} -> "register_x"
      [] mnemonic \in {"ldy", "sty"} -> "register_y"

\* C37: the resolver gives (mem[PC] + index) mod 256 for Zero Page,X and
\* Zero Page,Y, the word at base = (mem[PC] + X) mod 256 and (base + 1) mod
\* 256 for (Indirect,X), and the word at mem[PC] and (mem[PC] + 1) mod 256
\* plus Y, modulo 65536, for (Indirect),Y; resolving changes nothing: the
\* load or store that resolved changes only the register or the cell it
\* moves to, the flags of a load, and PC
C37_ZeroPageAddressing ==
    [][(/\ at = "run"
        /\ Fetched.panic = "none"
        /\ DecodeTable[Fetched.v][2] \in {"lda", "ldx", "ldy", "sta", "stx", "sty"}
        /\ DecodeTable[Fetched.v][3] \in ZeroPageModes)
          => LET moves(mnemonic, addr) ==
                     IF mnemonic \in {"sta", "stx", "sty"}
                     THEN cpu' = [cpu EXCEPT
                                     !.memory = Store(@, addr, cpu[Moved(mnemonic)]),
                                     !.program_counter = @ + 2]
                     ELSE cpu' = [cpu EXCEPT
                                     ![Moved(mnemonic)] = Cell(cpu.memory, addr),
                                     !.status = cpu'.status,
                                     !.program_counter = @ + 2]
                 resolves(arm, addr) ==
                     /\ get_operand_address(
                            [cpu EXCEPT !.program_counter = @ + 1], arm[3]) = Ok(addr)
                     /\ moves(arm[2], addr)
                 with(arm) == resolves(arm, ZeroPageAddress(arm[3], Immediate, cpu))
             IN  with(DecodeTable[Fetched.v])]_vars

\* STA ($FF),Y has run with Y = 0xFF and the pointer 0xFF02 read from cells
\* 0xFF and 0x00: A is stored at (0xFF02 + 0xFF) mod 65536 = 0x0001
C37_Witness ==
    /\ Cell(cpu.memory, 32768) = 145
    /\ Cell(cpu.memory, 32769) = 255
    /\ cpu.register_y = 255
    /\ Cell(cpu.memory, 255) = 2
    /\ Cell(cpu.memory, 0) = 255
    /\ Cell(cpu.memory, 1) = 90
    /\ cpu.program_counter = 32770

----------------------------------------------------------------------------
(* SpecRunFair: SpecRun, with the loop of run() always taking its next      *)
(* iteration: run() is sequential code and nothing suspends it.  The        *)
(* condition is weak fairness of Step, WF_vars(Step), written out as        *)
(* []<>(~ENABLED <<Step>>_vars) \/ []<><<Step>>_vars with the enabling       *)
(* condition as a state predicate: run() is in its loop and the iteration   *)
(* changes the CPU or returns.                                              *)

SpecRunFair ==
    /\ InitRun
    /\ [][Step]_vars
    /\ \/ []<>(~(/\ at = "run"
                 /\ LET changes(r) == r.s # cpu \/ r.returned
                    IN  changes(run_iteration(cpu))))
       \/ []<><<Step>>_vars

\* the arm of the byte at PC is a branch or JMP
BranchOrJumpAtPc ==
    /\ Fetched.panic = "none"
    /\ DecodeTable[Fetched.v][2] \in Branches \cup {"jmp"}

\* the instruction at PC is a JMP to PC
JmpToSelf ==
    /\ at = "run"
    /\ Fetched = Ok(76)
    /\ mem_read_u16(cpu, cpu.program_counter + 1) = Ok(cpu.program_counter)

\* C38: an iteration of run() that executes no branch and no JMP and does
\* not fault leaves PC strictly greater, below 65536; so from every point of
\* run() either run() ends (BRK or a fault) or a branch or JMP comes to be
\* executed; and there is no other guarantee: run() never leaves a JMP to
\* its own address
C38_Termination ==
    /\ [][(at = "run" /\ ~BranchOrJumpAtPc /\ cpu'.panic = "none")
              => /\ cpu'.program_counter > cpu.program_counter
                 /\ cpu'.program_counter < 65536]_vars
    /\ ((at = "run") ~> (at # "run" \/ BranchOrJumpAtPc))
    /\ [][~JmpToSelf]_vars

\* run() is at the JMP $8000 loaded at 0x8000
C38_Witness == JmpToSelf /\ cpu.program_counter = 32768

\* run() has returned from a program of three instructions and BRK
C38_Returned ==
    /\ at = "returned"
    /\ call = <<"load_and_run", <<169, 80, 72, 8, 0>>>>
    /\ cpu.program_counter = 32773

----------------------------------------------------------------------------
(* load_and_run and the registers the caller's CPU holds, checked under     *)
(* Spec, where the CPU of a call has been used by the call before it.       *)

\* two CPUs with the memory of s and other registers: every register of s
\* differs from that of one of them at least
OtherRegisters(s) ==
    { [s EXCEPT !.register_a = r[1], !.register_x = r[1], !.register_y = r[1],
                !.status = r[2], !.stackpointer = r[3], !.program_counter = r[4]] :
        r \in { <<0, 0, 255, 32768>>, <<90, 255, 16, 4660>> } }

\* C39: load_and_run is load, then reset, then run, and no register the CPU
\* holds before the call reaches its outcome: from a CPU with the same
\* memory and other A, X, Y, P, SP, PC the run starts in the same state, and
\* ends in the same registers, P, SP, PC and memory
C39_LoadAndRunForgetsRegisters ==
    [][(call'[1] = "load_and_run" /\ calls' = calls + 1) =>
          LET same(image, entered) ==
                  /\ cpu' = entered
                  /\ \A other \in OtherRegisters(cpu) :
                        /\ reset(load(other, image)) = entered
                        /\ load_and_run(other, image) = run(entered, MaxSteps)
          IN  same(call'[2], reset(load(cpu, call'[2])))]_vars

\* load_and_run of LDA #5; BRK has returned on the CPU that ran the test of
\* PHA before (it left A = 5, SP = 0xFD and 0x50 in cell 0x01FF): SP is 0xFF
C39_Witness ==
    /\ at = "returned"
    /\ calls = 2
    /\ call = <<"load_and_run", <<169, 5, 0>>>>
    /\ Cell(cpu.memory, 511) = 80
    /\ Cell(cpu.memory, 510) = 5
    /\ cpu.register_a = 5
    /\ cpu.stackpointer = 255
    /\ cpu.program_counter = 32771

----------------------------------------------------------------------------
(* The stack across a sequence of pushes and pulls, checked under SpecStack. *)

\* the values that the running program pushes, if it is a LifoProgram
PushedValues == [i \in 1 .. (Len(call[2]) - 1) \div 4 |-> call[2][3 * i - 1]]

\* the number of PLAs of the running program that have been executed
Pulled == cpu.program_counter - 32768 - 3 * Len(PushedValues)

\* C40: from SP = s, after v1..vn have been pushed with PHA (n <= s), the
\* k-th PLA leaves v(n-k+1) in A and SP at s - n + k, so the n PLAs yield
\* vn, ..., v1 and return SP to s, and nothing faults; every PHA and PHP that
\* completes writes one cell, at 0x0100 + SP inside 0x0100..0x01FF, and no
\* PLA or PLP writes memory
C40_StackIsLifo ==
    /\ []((/\ call[1] = "run"
           /\ Len(call[2]) > 4
           /\ call[2] = LifoProgram(PushedValues)
           /\ Len(PushedValues) <= call[3].stackpointer)
             => /\ at # "panicked"
                /\ Pulled \in 1 .. Len(PushedValues) =>
                      /\ cpu.register_a = PushedValues[Len(PushedValues) - Pulled + 1]
                      /\ cpu.stackpointer
                            = call[3].stackpointer - Len(PushedValues) + Pulled
                /\ at = "returned" =>
                      /\ cpu.register_a = PushedValues[1]
                      /\ cpu.stackpointer = call[3].stackpointer)
    /\ [][(Fetches({"pha", "php"}) /\ cpu'.panic = "none") =>
              /\ \E data \in Byte :
                    cpu'.memory = Store(cpu.memory, 256 + cpu.stackpointer, data)
              /\ Fetches({"pha"}) =>
                    Cell(cpu'.memory, 256 + cpu.stackpointer) = cpu.register_a
              /\ 256 + cpu.stackpointer \in 256 .. 511]_vars
    /\ [][Fetches({"pla", "plp"}) => cpu'.memory = cpu.memory]_vars

\* the second of three PLAs has run, after 0x11, 0x80, 0x11 were pushed from
\* SP = 0x80: A is 0x80 and SP is 0x7F
C40_Witness ==
    /\ call[1] = "run"
    /\ call[2] = LifoProgram(<<17, 128, 17>>)
    /\ call[3].stackpointer = 128
    /\ at = "run"
    /\ cpu.program_counter = 32768 + 9 + 2
    /\ cpu.register_a = 128
    /\ cpu.stackpointer = 127
    /\ Cell(cpu.memory, 256 + 126) = 17

====
